---- MODULE Spec2Model ----
(***************************************************************************)
(* Model of echidnabot's job scheduler (src/scheduler/job_queue.rs) and of *)
(* the webhook ingress that feeds it (src/api/webhooks.rs).                *)
(*                                                                         *)
(* Every scheduler method is an async fn run by a task of a multi-threaded *)
(* tokio runtime.  An action is one atomic block of a method: a            *)
(* `lock().await` together with the accesses to the locked collection that *)
(* follow it, up to the next `lock().await`.  The unlocked load of         *)
(* active_count in try_start_next is an action of its own.                 *)
(***************************************************************************)
EXTENDS Integers, Sequences, FiniteSets, TLC

\* ---------------------------------------------------------------- bounds
NumTasks == 2
MaxJobs == 3
MaxConcurrentCfg == 1
MaxQueueSizeCfg == 2
MaxRetriesCfg == 3
MaxExecCalls == 2

Tasks == 1..NumTasks
NoTask == 0
JobIds == 1..MaxJobs

\* ---------------------------------------------------------------- data
\* JobPriority: Low < Normal < High < Critical
Low == 0
Normal == 1
High == 2
Critical == 3
JobPriority == {Low, Normal, High, Critical}

\* the priorities the webhook handlers give a job: Normal for a push, High for
\* a pull request, a merge request and a check suite
CallerPriorities == {Normal, High}

RepoIds == {1}
CommitShas == {"c0", "c1"}
ProverKind == {"Metamath", "Lean"}

\* Option<T>: None is the empty sequence, Some(x) the one-element sequence
None == << >>
Some(x) == << x >>
Unit == << >>

\* ProofJob::new(repo_id, commit_sha, prover, file_paths): status Queued,
\* priority Normal; the id is a fresh uuid
ProofJobNew(id, repo_id, commit_sha, prover, file_paths) ==
    [id |-> id, repo_id |-> repo_id, commit_sha |-> commit_sha,
     prover |-> prover, file_paths |-> file_paths,
     priority |-> Normal, status |-> "Queued"]

with_priority(job, p) == [job EXCEPT !.priority = p]

\* ProofJob::start
start(job) == [job EXCEPT !.status = "Running"]

\* the terminal status set by ProofJob::complete
CompleteStatus(success) == IF success THEN "Completed" ELSE "Failed"

\* ---------------------------------------------------------------- sequences
\* Vec::truncate(i) written for Vec::remove(i): everything from i on is lost
RemoveAt_truncate(s, i) == SubSeq(s, 1, i - 1)

\* the element is read but never removed
RemoveAt_keep(s, i) == s

RemoveAt(s, i) == SubSeq(s, 1, i - 1) \o SubSeq(s, i + 1, Len(s))

InsertAt(s, i, x) == SubSeq(s, 1, i - 1) \o << x >> \o SubSeq(s, i, Len(s))

\* Iterator::position over the indices (1-based) whose element satisfies the
\* closure: the first of them, 0 for None
Position(S) == IF S = {} THEN 0 ELSE CHOOSE i \in S : \A k \in S : i <= k

\* ---------------------------------------------------------------- state
VARIABLES
    queue,           \* JobScheduler.queue: VecDeque<ProofJob>
    running,         \* JobScheduler.running: Vec<ProofJob>
    active_count,    \* JobScheduler.active_count: AtomicUsize
    max_concurrent,  \* JobScheduler.max_concurrent
    max_queue_size,  \* JobScheduler.max_queue_size
    queue_lock,      \* holder of the queue mutex, NoTask when free
    running_lock,    \* holder of the running mutex, NoTask when free
    pc,              \* per task: position in the method it executes
    cur,             \* per task: the local `job` of try_start_next
    event,           \* the call that returned in the last step, if any
    nextId,          \* the next fresh job id
    accepted,        \* ids for which enqueue returned Some, in order
    life,            \* per job id: the status the job object has reached
    starts,          \* per job id: times try_start_next returned it
    decrements,      \* per job id: times complete_job decremented for it
    store_repos,     \* Store: the repositories table
    store_jobs,      \* Store: the proof_jobs table
    wh,              \* per task: the locals of the webhook handler it runs
    origin,          \* per job id: the caller that built the job
    config,          \* WebhookState.config: the secrets of the platforms
    retry,           \* the locals of one RetryPolicy::execute call
    exec,            \* a ContainerExecutor, its call in progress and its child
    rd               \* per task: the locals of the get_job, jobs_for_repo or stats call it runs

schedVars == << queue, running, active_count, max_concurrent, max_queue_size,
                queue_lock, running_lock >>
taskVars == << pc, cur >>
histVars == << nextId, accepted, life, starts, decrements, origin >>
storeVars == << store_repos, store_jobs >>
auxVars == << config, retry, exec, rd >>
vars == << schedVars, taskVars, event, histVars, storeVars, wh, auxVars >>

NoJob == [id |-> 0]
NoHandler == [i |-> 0]

\* a file path is the sequence of its characters
ReadmeMd == << "R", ".", "m", "d" >>
ProofMm == << "p", ".", "m", "m" >>
XLean == << "x", ".", "l", "e", "a", "n" >>

\* the repository of the spec's scenarios: acme/thm on GitHub, registered
\* with the provers Metamath and Lean
RegisteredRepo ==
    [id |-> 1, platform |-> "GitHub", owner |-> "acme", name |-> "thm",
     enabled_provers |-> << "Metamath", "Lean" >>, enabled |-> TRUE,
     check_on_push |-> TRUE, check_on_pr |-> TRUE,
     webhook_secret |-> Some("repo-secret")]

\* Config as the webhook handlers read it: config.github and config.gitlab
\* are Option<..> sections, each with webhook_secret: Option<String>
PlatformConfig(secret) == Some([webhook_secret |-> secret])
NoConfig == [github |-> None, gitlab |-> None]

\* no RetryPolicy::execute call is in progress
NoRetry == [pc |-> "none"]
\* no ContainerExecutor has been built
NoExec == [pc |-> "none"]
\* the task runs no get_job, jobs_for_repo or stats call
NoRead == [op |-> "none"]
NoEvent == [op |-> "none"]
Returned(t, o, a, r) == [op |-> o, arg |-> a, ret |-> r]

\* JobScheduler::new(max_concurrent, max_queue_size), next to a store that
\* holds the repositories `repos` and a Config `cfg`
InitWith(repos, cfg) ==
    /\ queue = << >>
    /\ running = << >>
    /\ active_count = 0
    /\ max_concurrent = MaxConcurrentCfg
    /\ max_queue_size = MaxQueueSizeCfg
    /\ queue_lock = NoTask
    /\ running_lock = NoTask
    /\ pc = [t \in Tasks |-> "idle"]
    /\ cur = [t \in Tasks |-> NoJob]
    /\ event = NoEvent
    /\ nextId = 1
    /\ accepted = << >>
    /\ life = [i \in JobIds |-> "none"]
    /\ starts = [i \in JobIds |-> 0]
    /\ decrements = [i \in JobIds |-> 0]
    /\ store_repos = repos
    /\ store_jobs = {}
    /\ wh = [t \in Tasks |-> NoHandler]
    /\ origin = [i \in JobIds |-> "none"]
    /\ config = cfg
    /\ retry = NoRetry
    /\ exec = NoExec
    /\ rd = [t \in Tasks |-> NoRead]

\* the repository acme/thm is registered and no webhook secret is configured
Init == InitWith({ RegisteredRepo }, NoConfig)

\* ---------------------------------------------------------------- enqueue
\* off by one: `>` written for `>=`
queue_full_gt(q) == Len(q) > max_queue_size

\* job_queue.rs:49  queue.len() >= self.max_queue_size
queue_full(q) == Len(q) >= max_queue_size

\* the job ids are compared, not the triples
is_duplicate_by_id(q, job) == \E i \in 1..Len(q) : q[i].id = job.id

\* the running jobs are compared as well
is_duplicate_with_running(q, job) ==
    \E j \in { q[i] : i \in 1..Len(q) } \cup { running[i] : i \in 1..Len(running) } :
        /\ j.repo_id = job.repo_id
        /\ j.commit_sha = job.commit_sha
        /\ j.prover = job.prover

\* job_queue.rs:55-59
is_duplicate(q, job) ==
    \E i \in 1..Len(q) :
        /\ q[i].repo_id = job.repo_id
        /\ q[i].commit_sha = job.commit_sha
        /\ q[i].prover = job.prover

\* push_back: the priority is ignored
insert_pos_back(q, job) == Len(q) + 1

\* `<=` written for `<`: a job overtakes the queued jobs of its own priority
insert_pos_le(q, job) ==
    LET p == Position({ i \in 1..Len(q) : q[i].priority <= job.priority })
    IN  IF p = 0 THEN Len(q) + 1 ELSE p

\* job_queue.rs:69-72  position(|j| j.priority < job.priority).unwrap_or(len)
insert_pos(q, job) ==
    LET p == Position({ i \in 1..Len(q) : q[i].priority < job.priority })
    IN  IF p = 0 THEN Len(q) + 1 ELSE p

\* job_queue.rs:48-77: the new queue and the returned Option<JobId>
enqueue_body(q, job) ==
    IF queue_full(q) THEN [queue |-> q, ret |-> None]
    ELSE IF is_duplicate(q, job) THEN [queue |-> q, ret |-> None]
    ELSE [queue |-> InsertAt(q, insert_pos(q, job), job), ret |-> Some(job.id)]

\* scheduler.enqueue(job) for a job the caller built with
\* ProofJob::new(..).with_priority(..): job_queue.rs:45-78, from taking the
\* queue mutex to dropping it
Enqueue(t, commits, priorities) ==
    /\ pc[t] = "idle"
    /\ nextId <= MaxJobs
    /\ queue_lock = NoTask
    /\ \E r \in RepoIds, c \in commits, p \in ProverKind, prio \in priorities :
          LET job == with_priority(ProofJobNew(nextId, r, c, p, << >>), prio)
              out == enqueue_body(queue, job)
          IN  /\ queue' = out.queue
              /\ event' = Returned(t, "enqueue", job, out.ret)
              /\ accepted' = IF out.ret = None THEN accepted
                             ELSE Append(accepted, job.id)
    /\ life' = [life EXCEPT ![nextId] = "Queued"]
    /\ nextId' = nextId + 1
    /\ UNCHANGED << running, active_count, max_concurrent, max_queue_size,
                    queue_lock, running_lock, taskVars, starts, decrements,
                    origin >>
    /\ UNCHANGED << storeVars, wh, auxVars >>

\* ---------------------------------------------------------------- try_start_next
\* AtomicUsize::fetch_add(1) and fetch_sub(1) wrap around; UsizeWrapped
\* stands for usize::MAX, the value 0.fetch_sub(1) leaves behind
UsizeWrapped == -1

\* the scheduler is always found at capacity
at_capacity_always(n) == TRUE

\* job_queue.rs:82  self.active_count.load(Relaxed) >= self.max_concurrent
at_capacity(n) == n = UsizeWrapped \/ n >= max_concurrent

\* job_queue.rs:200-203  has_capacity()
has_capacity == active_count # UsizeWrapped /\ active_count < max_concurrent

\* the counter is left as it was
fetch_add_none(n) == n

fetch_add(n) == IF n = UsizeWrapped THEN 0 ELSE n + 1
fetch_sub(n) == IF n = 0 THEN UsizeWrapped ELSE n - 1

\* job_queue.rs:82-84: the capacity test, made before the queue mutex is taken
TryStartNext(t) ==
    /\ pc[t] = "idle"
    /\ IF at_capacity(active_count)
       THEN /\ event' = Returned(t, "try_start_next", Unit, None)
            /\ pc' = pc
       ELSE /\ event' = NoEvent
            /\ pc' = [pc EXCEPT ![t] = "tsn_lock_queue"]
    /\ UNCHANGED << schedVars, cur, histVars >>
    /\ UNCHANGED << storeVars, wh, auxVars >>

\* job_queue.rs:86-90  queue.lock().await, pop_front()?, job.start(),
\* active_count.fetch_add(1); the queue guard is dropped by `?` on an empty
\* queue and is kept otherwise
TsnPop(t) ==
    /\ pc[t] = "tsn_lock_queue"
    /\ queue_lock = NoTask
    /\ IF queue = << >>
       THEN /\ event' = Returned(t, "try_start_next", Unit, None)
            /\ pc' = [pc EXCEPT ![t] = "idle"]
            /\ UNCHANGED << queue, active_count, cur, life, queue_lock >>
       ELSE /\ queue' = Tail(queue)
            /\ cur' = [cur EXCEPT ![t] = start(Head(queue))]
            /\ active_count' = fetch_add(active_count)
            /\ life' = [life EXCEPT ![Head(queue).id] = "Running"]
            /\ queue_lock' = t
            /\ pc' = [pc EXCEPT ![t] = "tsn_lock_running"]
            /\ event' = NoEvent
    /\ UNCHANGED << running, max_concurrent, max_queue_size, running_lock,
                    nextId, accepted, starts, decrements, origin >>
    /\ UNCHANGED << storeVars, wh, auxVars >>

\* job_queue.rs:92-102  running.lock().await with the queue guard still held,
\* running.push(job.clone()), Some(job); both guards are dropped
TsnPush(t) ==
    /\ pc[t] = "tsn_lock_running"
    /\ running_lock = NoTask
    /\ running' = Append(running, cur[t])
    /\ event' = Returned(t, "try_start_next", Unit, Some(cur[t]))
    /\ starts' = [starts EXCEPT ![cur[t].id] = @ + 1]
    /\ cur' = [cur EXCEPT ![t] = NoJob]
    /\ queue_lock' = NoTask
    /\ pc' = [pc EXCEPT ![t] = "idle"]
    /\ UNCHANGED << queue, active_count, max_concurrent, max_queue_size,
                    running_lock, nextId, accepted, life, decrements, origin >>
    /\ UNCHANGED << storeVars, wh, auxVars >>

\* ---------------------------------------------------------------- complete_job
\* job_queue.rs:109  running.iter().position(|j| j.id == job_id)
running_position(r, job_id) == Position({ i \in 1..Len(r) : r[i].id = job_id })

\* complete_job(job_id, success, message) for the id of any job built so far:
\* job_queue.rs:106-129, from taking the running mutex to dropping it
CompleteJob(t) ==
    /\ pc[t] = "idle"
    /\ running_lock = NoTask
    /\ \E job_id \in 1..(nextId - 1), success \in BOOLEAN :
          LET pos == running_position(running, job_id)
          IN  /\ IF pos # 0
                 THEN /\ running' = RemoveAt(running, pos)
                      /\ active_count' = fetch_sub(active_count)
                      /\ life' = [life EXCEPT ![job_id] = CompleteStatus(success)]
                      /\ decrements' = [decrements EXCEPT ![job_id] = @ + 1]
                 ELSE UNCHANGED << running, active_count, life, decrements >>
              /\ event' = Returned(t, "complete_job",
                                   [id |-> job_id, success |-> success], Unit)
    /\ UNCHANGED << queue, max_concurrent, max_queue_size, queue_lock,
                    running_lock, taskVars, nextId, accepted, starts, origin >>
    /\ UNCHANGED << storeVars, wh, auxVars >>

\* ---------------------------------------------------------------- cancel_job
\* `!=` written for `==`: the first job with another id is found
queue_position_ne(q, job_id) == Position({ i \in 1..Len(q) : q[i].id # job_id })

\* job_queue.rs:174  queue.iter().position(|j| j.id == job_id)
queue_position(q, job_id) == Position({ i \in 1..Len(q) : q[i].id = job_id })

\* cancel_job(job_id) for the id of any job built so far: job_queue.rs:170-185,
\* from taking the queue mutex to dropping it
CancelJob(t) ==
    /\ pc[t] = "idle"
    /\ queue_lock = NoTask
    /\ \E job_id \in 1..(nextId - 1) :
          LET pos == queue_position(queue, job_id)
          IN  IF pos # 0
              THEN /\ queue' = RemoveAt(queue, pos)
                   /\ life' = [life EXCEPT ![job_id] = "Cancelled"]
                   /\ event' = Returned(t, "cancel_job", [id |-> job_id], TRUE)
              ELSE /\ event' = Returned(t, "cancel_job", [id |-> job_id], FALSE)
                   /\ UNCHANGED << queue, life >>
    /\ UNCHANGED << running, active_count, max_concurrent, max_queue_size,
                    queue_lock, running_lock, taskVars, nextId, accepted,
                    starts, decrements, origin >>
    /\ UNCHANGED << storeVars, wh, auxVars >>

\* ---------------------------------------------------------------- readers
\* job_queue.rs:136, 143  iter().find(|j| j.id == job_id)
find_job(s, job_id) ==
    LET pos == Position({ i \in 1..Len(s) : s[i].id = job_id })
    IN  IF pos = 0 THEN None ELSE Some(s[pos])

\* the mutex of a collection is free
lock_free(name) == IF name = "queue" THEN queue_lock = NoTask ELSE running_lock = NoTask

\* whether a job id is in the queue or in the running set
Held(job_id) ==
    find_job(queue, job_id) # None \/ find_job(running, job_id) # None

\* job_queue.rs:132-140  get_job(job_id) for the id of any job built so far:
\* the first block, from taking the running mutex to dropping it; `held`
\* records whether the scheduler held the job when the call began
GetJobRunning(t) ==
    /\ pc[t] = "idle"
    /\ running_lock = NoTask
    /\ \E job_id \in 1..(nextId - 1) :
          LET found == find_job(running, job_id)
          IN  IF found # None
              THEN /\ event' = Returned(t, "get_job",
                                        [id |-> job_id, held |-> TRUE], found)
                   /\ UNCHANGED << pc, rd >>
              ELSE /\ event' = NoEvent
                   /\ pc' = [pc EXCEPT ![t] = "get_job_queue"]
                   /\ rd' = [rd EXCEPT ![t] = [op |-> "get_job", job_id |-> job_id,
                                               held |-> Held(job_id)]]
    /\ UNCHANGED << schedVars, cur, histVars, storeVars, wh, config, retry, exec >>

\* job_queue.rs:142-149  the second block of get_job, from taking the queue
\* mutex to dropping it, and the return
GetJobQueue(t) ==
    /\ pc[t] = "get_job_queue"
    /\ queue_lock = NoTask
    /\ event' = Returned(t, "get_job",
                         [id |-> rd[t].job_id, held |-> rd[t].held],
                         find_job(queue, rd[t].job_id))
    /\ pc' = [pc EXCEPT ![t] = "idle"]
    /\ rd' = [rd EXCEPT ![t] = NoRead]
    /\ UNCHANGED << schedVars, cur, histVars, storeVars, wh, config, retry, exec >>

\* job_queue.rs:157, 162  iter().filter(|j| j.repo_id == repo_id).cloned()
filter_repo(s, repo_id) == SelectSeq(s, LAMBDA j : j.repo_id = repo_id)

\* job_queue.rs:153-158  jobs_for_repo(repo_id): the block under the running
\* mutex
JobsForRepoRunning(t) ==
    /\ pc[t] = "idle"
    /\ running_lock = NoTask
    /\ \E repo_id \in RepoIds :
          rd' = [rd EXCEPT ![t] = [op |-> "jobs_for_repo", repo_id |-> repo_id,
                                   jobs |-> filter_repo(running, repo_id)]]
    /\ pc' = [pc EXCEPT ![t] = "jobs_for_repo_queue"]
    /\ event' = NoEvent
    /\ UNCHANGED << schedVars, cur, histVars, storeVars, wh, config, retry, exec >>

\* job_queue.rs:160-165  the block under the queue mutex, and the return
JobsForRepoQueue(t) ==
    /\ pc[t] = "jobs_for_repo_queue"
    /\ queue_lock = NoTask
    /\ event' = Returned(t, "jobs_for_repo", [repo_id |-> rd[t].repo_id],
                         rd[t].jobs \o filter_repo(queue, rd[t].repo_id))
    /\ pc' = [pc EXCEPT ![t] = "idle"]
    /\ rd' = [rd EXCEPT ![t] = NoRead]
    /\ UNCHANGED << schedVars, cur, histVars, storeVars, wh, config, retry, exec >>

\* the running mutex is taken before the queue mutex
stats_lock_order_reversed == << "running", "queue" >>

\* job_queue.rs:189-190  the order in which stats takes the two mutexes
stats_lock_order == << "queue", "running" >>

\* job_queue.rs:189  stats(): the first lock().await, the guard is kept
StatsLockQueue(t) ==
    /\ pc[t] = "idle"
    /\ lock_free(stats_lock_order[1])
    /\ IF stats_lock_order[1] = "queue"
       THEN queue_lock' = t /\ UNCHANGED running_lock
       ELSE running_lock' = t /\ UNCHANGED queue_lock
    /\ pc' = [pc EXCEPT ![t] = "stats_lock_running"]
    /\ rd' = [rd EXCEPT ![t] = [op |-> "stats"]]
    /\ event' = NoEvent
    /\ UNCHANGED << queue, running, active_count, max_concurrent, max_queue_size,
                    cur, histVars, storeVars, wh, config, retry, exec >>

\* job_queue.rs:190-197  the second lock().await with the first guard held,
\* the QueueStats, and the return that drops both guards
StatsLockRunning(t) ==
    /\ pc[t] = "stats_lock_running"
    /\ lock_free(stats_lock_order[2])
    /\ event' = Returned(t, "stats", Unit,
                         [queued |-> Len(queue), running |-> Len(running),
                          max_concurrent |-> max_concurrent,
                          max_queue_size |-> max_queue_size])
    /\ queue_lock' = NoTask
    /\ running_lock' = NoTask
    /\ pc' = [pc EXCEPT ![t] = "idle"]
    /\ rd' = [rd EXCEPT ![t] = NoRead]
    /\ UNCHANGED << queue, running, active_count, max_concurrent, max_queue_size,
                    cur, histVars, storeVars, wh, config, retry, exec >>

\* ---------------------------------------------------------------- webhook ingress
\* str::to_lowercase, character by character, on ASCII
UpperCase ==
    << "A", "B", "C", "D", "E", "F", "G", "H", "I", "J", "K", "L", "M", "N",
       "O", "P", "Q", "R", "S", "T", "U", "V", "W", "X", "Y", "Z" >>

LowerCase ==
    << "a", "b", "c", "d", "e", "f", "g", "h", "i", "j", "k", "l", "m", "n",
       "o", "p", "q", "r", "s", "t", "u", "v", "w", "x", "y", "z" >>

to_lowercase_char(c) ==
    IF \E k \in 1..Len(UpperCase) : UpperCase[k] = c
    THEN LowerCase[CHOOSE k \in 1..Len(UpperCase) : UpperCase[k] = c]
    ELSE c

to_lowercase(f) == [i \in 1..Len(f) |-> to_lowercase_char(f[i])]

\* str::ends_with
ends_with(f, suffix) ==
    /\ Len(suffix) <= Len(f)
    /\ SubSeq(f, Len(f) - Len(suffix) + 1, Len(f)) = suffix

\* ProverKind::file_extensions, the extension table of the provers modelled
file_extensions(prover) ==
    CASE prover = "Metamath" -> { << ".", "m", "m" >> }
      [] prover = "Lean" -> { << ".", "l", "e", "a", "n" >> }

\* webhooks.rs:906-912
file_matches_prover(file, prover) ==
    LET file_lower == to_lowercase(file)
    IN  \E ext \in file_extensions(prover) : ends_with(file_lower, ext)

\* webhooks.rs:893-903
filter_proof_files(files, enabled_provers) ==
    SelectSeq(files, LAMBDA f :
        \E k \in 1..Len(enabled_provers) : file_matches_prover(f, enabled_provers[k]))

\* webhooks.rs:391-395  the proof files of one prover
prover_files(proof_files, prover) ==
    SelectSeq(proof_files, LAMBDA f : file_matches_prover(f, prover))

RECURSIVE flat_map_files(_)
\* webhooks.rs:367-377  added then modified files of every commit, in order
flat_map_files(commits) ==
    IF commits = << >> THEN << >>
    ELSE Head(commits).added \o Head(commits).modified
         \o flat_map_files(Tail(commits))

\* Store::get_repository_by_name: the row with the natural key, if any
get_repository_by_name(platform, owner, name) ==
    LET rows == { r \in store_repos :
                    r.platform = platform /\ r.owner = owner /\ r.name = name }
    IN  IF rows = {} THEN None ELSE Some(CHOOSE r \in rows : TRUE)

\* webhooks.rs:390-399  the loop `for prover in &repo.enabled_provers` skips
\* (continue) the provers without files: the index of the next prover, from i
\* on, that gets a job; Len + 1 when the loop is over
next_prover(repo, proof_files, i) ==
    LET n == Len(repo.enabled_provers)
        S == { k \in i..n : prover_files(proof_files, repo.enabled_provers[k]) # << >> }
    IN  IF S = {} THEN n + 1 ELSE CHOOSE k \in S : \A m \in S : k <= m

\* the push event replayed by the platform: one commit that adds README.md
\* and modifies proof.mm, pushed to acme/thm with after = "c0"
ReplayEvent ==
    [owner |-> "acme", name |-> "thm", after |-> "c0",
     commits |-> << [added |-> << ReadmeMd >>, modified |-> << ProofMm >>] >>]

\* leaving the loop of handle_github_push at index i: Ok(()) when it is over
PushAdvance(t, h, i) ==
    IF i > Len(h.repo.enabled_provers)
    THEN /\ wh' = [wh EXCEPT ![t] = NoHandler]
         /\ pc' = [pc EXCEPT ![t] = "idle"]
         /\ event' = Returned(t, "handle_github_push", h.event, "Ok")
    ELSE /\ wh' = [wh EXCEPT ![t] = [h EXCEPT !.i = i]]
         /\ pc' = [pc EXCEPT ![t] = "push_enqueue"]
         /\ event' = NoEvent

\* webhooks.rs:333-387  handle_github_push up to its loop: the store lookup
\* (which can fail), the enabled / check_on_push filter, the file filter
GithubPushLookup(t, ev) ==
    /\ pc[t] = "idle"
    /\ nextId <= MaxJobs
    /\ \E store_ok \in BOOLEAN :
          IF ~store_ok
          THEN /\ event' = Returned(t, "handle_github_push", ev, "Err")
               /\ UNCHANGED << pc, wh >>
          ELSE LET found == get_repository_by_name("GitHub", ev.owner, ev.name)
               IN  IF found = None \/ ~found[1].enabled \/ ~found[1].check_on_push
                   THEN /\ event' = Returned(t, "handle_github_push", ev, "Ok")
                        /\ UNCHANGED << pc, wh >>
                   ELSE LET repo == found[1]
                            proof_files == filter_proof_files(
                                flat_map_files(ev.commits), repo.enabled_provers)
                            h == [i |-> 1, event |-> ev, repo |-> repo,
                                  proof_files |-> proof_files, job |-> NoJob]
                        IN  IF proof_files = << >>
                            THEN /\ event' = Returned(t, "handle_github_push", ev, "Ok")
                                 /\ UNCHANGED << pc, wh >>
                            ELSE PushAdvance(t, h, next_prover(repo, proof_files, 1))
    /\ UNCHANGED << schedVars, cur, histVars, storeVars, auxVars >>

\* webhooks.rs:401-404  ProofJob::new(..).with_priority(Normal) and
\* scheduler.enqueue(job.clone()) for the prover at index i
GithubPushEnqueue(t) ==
    /\ pc[t] = "push_enqueue"
    /\ nextId <= MaxJobs
    /\ queue_lock = NoTask
    /\ LET h == wh[t]
           prover == h.repo.enabled_provers[h.i]
           job == with_priority(
                     ProofJobNew(nextId, h.repo.id, h.event.after, prover,
                                 prover_files(h.proof_files, prover)), Normal)
           out == enqueue_body(queue, job)
       IN  /\ queue' = out.queue
           /\ IF out.ret = None
              THEN /\ accepted' = accepted
                   /\ PushAdvance(t, h, next_prover(h.repo, h.proof_files, h.i + 1))
              ELSE /\ accepted' = Append(accepted, job.id)
                   /\ wh' = [wh EXCEPT ![t] = [h EXCEPT !.job = job]]
                   /\ pc' = [pc EXCEPT ![t] = "push_create_job"]
                   /\ event' = NoEvent
    /\ life' = [life EXCEPT ![nextId] = "Queued"]
    /\ origin' = [origin EXCEPT ![nextId] = "handle_github_push"]
    /\ nextId' = nextId + 1
    /\ UNCHANGED << running, active_count, max_concurrent, max_queue_size,
                    queue_lock, running_lock, cur, starts, decrements, storeVars,
                    auxVars >>

\* webhooks.rs:407  state.store.create_job(&job.into()).await?  Store::create_job
\* inserts the row, or fails and `?` ends the handler with the error
GithubPushCreateJob(t) ==
    /\ pc[t] = "push_create_job"
    /\ LET h == wh[t]
       IN  \E store_ok \in BOOLEAN :
              IF store_ok
              THEN /\ store_jobs' = store_jobs \cup { h.job }
                   /\ PushAdvance(t, [h EXCEPT !.job = NoJob],
                                  next_prover(h.repo, h.proof_files, h.i + 1))
              ELSE /\ store_jobs' = store_jobs
                   /\ wh' = [wh EXCEPT ![t] = NoHandler]
                   /\ pc' = [pc EXCEPT ![t] = "idle"]
                   /\ event' = Returned(t, "handle_github_push", h.event, "Err")
    /\ UNCHANGED << schedVars, cur, histVars, store_repos, auxVars >>

\* ---------------------------------------------------------------- webhook requests
\* Hmac::<Sha256> as an ideal MAC: the digest is determined by the key and
\* the body (named by body.name) and determines both
HmacSha256(key, body) == [key |-> key, body |-> body.name]

\* the digest sha256=0000... decodes to: the MAC of no key and no body
ZeroDigest == [key |-> "", body |-> ""]

\* a value of the X-Hub-Signature-256 header: the text before the hex digits,
\* whether the digits decode (hex::decode), and the bytes they decode to
SignatureHeader(prefix, hex, bytes) == [prefix |-> prefix, hex |-> hex, bytes |-> bytes]

\* any well-formed header passes: the MAC is not compared
verify_github_signature_unchecked(headers, body, secret) ==
    IF headers.signature = None THEN "Missing X-Hub-Signature-256 header"
    ELSE IF headers.signature[1].prefix # "sha256=" THEN "Invalid signature format"
    ELSE IF ~headers.signature[1].hex THEN "Invalid hex in signature"
    ELSE "Ok"

\* webhooks.rs:870-890
verify_github_signature(headers, body, secret) ==
    IF headers.signature = None THEN "Missing X-Hub-Signature-256 header"
    ELSE IF headers.signature[1].prefix # "sha256=" THEN "Invalid signature format"
    ELSE IF ~headers.signature[1].hex THEN "Invalid hex in signature"
    ELSE IF headers.signature[1].bytes # HmacSha256(secret, body) THEN "Signature mismatch"
    ELSE "Ok"

\* Option::unwrap_or
unwrap_or(opt, default) == IF opt = None THEN default ELSE opt[1]

\* webhooks.rs:250-257  the signature is verified if config.github has a
\* webhook_secret
github_authenticated(req) ==
    IF config.github # None /\ config.github[1].webhook_secret # None
    THEN verify_github_signature(req.headers, req.body,
                                 config.github[1].webhook_secret[1]) = "Ok"
    ELSE TRUE

\* webhooks.rs:529-541  the token is compared if config.gitlab has a
\* webhook_secret; a missing header counts as the empty token
gitlab_authenticated(req) ==
    IF config.gitlab # None /\ config.gitlab[1].webhook_secret # None
    THEN unwrap_or(req.headers.token, "") = config.gitlab[1].webhook_secret[1]
    ELSE TRUE

\* webhooks.rs:725-728  handle_bitbucket_webhook verifies nothing
bitbucket_authenticated(req) == TRUE

authenticated(req) ==
    CASE req.platform = "GitHub" -> github_authenticated(req)
      [] req.platform = "GitLab" -> gitlab_authenticated(req)
      [] req.platform = "Bitbucket" -> bitbucket_authenticated(req)

\* serde_json::from_slice::<T>(&body): the body has the fields of T or not
parses(body, schema) == body.shape = schema

\* the outcome of the match on the event type: a status to answer at once, or
\* the handle_* function to call with the parsed event
Reply(status) == [status |-> status, kind |-> "none", ev |-> [shape |-> "none"]]
Handle(kind, ev) == [status |-> 0, kind |-> kind, ev |-> ev]

\* a parse failure of a recognised event is answered 200
parse_or_400_lenient(body, schema, kind) ==
    IF parses(body, schema) THEN Handle(kind, body.event) ELSE Reply(200)

\* webhooks.rs:269-280 and alike: Ok(event) calls the handler, Err(e) is 400
parse_or_400(body, schema, kind) ==
    IF parses(body, schema) THEN Handle(kind, body.event) ELSE Reply(400)

\* webhooks.rs:260-328
github_dispatch(req) ==
    LET event_type == unwrap_or(req.headers.event, "unknown")
    IN  CASE event_type = "push" ->
               parse_or_400(req.body, "GitHubPushEvent", "handle_github_push")
          [] event_type = "pull_request" ->
               parse_or_400(req.body, "GitHubPullRequestEvent",
                            "handle_github_pull_request")
          [] event_type = "check_suite" ->
               IF parses(req.body, "GitHubCheckSuiteEvent")
                  /\ req.body.event.action \notin { "requested", "rerequested" }
               THEN Reply(200)
               ELSE parse_or_400(req.body, "GitHubCheckSuiteEvent",
                                 "handle_github_check_suite")
          [] event_type = "ping" -> Reply(200)
          [] OTHER -> Reply(200)

\* webhooks.rs:544-585
gitlab_dispatch(req) ==
    LET event_type == unwrap_or(req.headers.event, "unknown")
    IN  CASE event_type = "Push Hook" ->
               parse_or_400(req.body, "GitLabPushEvent", "handle_gitlab_push")
          [] event_type = "Merge Request Hook" ->
               parse_or_400(req.body, "GitLabMergeRequestEvent",
                            "handle_gitlab_merge_request")
          [] OTHER -> Reply(200)

\* webhooks.rs:725-766
bitbucket_dispatch(req) ==
    LET event_type == unwrap_or(req.headers.event, "unknown")
    IN  CASE event_type = "repo:push" ->
               parse_or_400(req.body, "BitbucketPushEvent", "handle_bitbucket_push")
          [] event_type \in { "pullrequest:created", "pullrequest:updated" } ->
               parse_or_400(req.body, "BitbucketPullRequestEvent",
                            "handle_bitbucket_pull_request")
          [] OTHER -> Reply(200)

dispatch(req) ==
    CASE req.platform = "GitHub" -> github_dispatch(req)
      [] req.platform = "GitLab" -> gitlab_dispatch(req)
      [] req.platform = "Bitbucket" -> bitbucket_dispatch(req)

RECURSIVE split(_, _)
\* str::split(sep).collect::<Vec<&str>>() on a string given as the sequence
\* of its segments and separators
split(str, sep) ==
    LET S == { i \in 1..Len(str) : str[i] = sep }
    IN  IF S = {} THEN << IF str = << >> THEN "" ELSE str[1] >>
        ELSE LET i == CHOOSE k \in S : \A m \in S : k <= m
             IN  << IF i = 1 THEN "" ELSE str[1] >>
                     \o split(SubSeq(str, i + 1, Len(str)), sep)

\* what a handle_* function does before it looks the repository up: whether
\* it returns Ok(()) at once (ignored), and else the key of the lookup, the
\* commit, the flag the repository must have, whether the files are filtered
\* and the priority of the jobs
Ignored == [ignored |-> TRUE]
Plan(platform, owner, name, commit_sha, flag, filter, priority) ==
    [ignored |-> FALSE, platform |-> platform, owner |-> owner, name |-> name,
     commit_sha |-> commit_sha, flag |-> flag, filter |-> filter,
     priority |-> priority]

\* every action of a pull request is processed
github_pr_action_accepted_all(action) == TRUE

\* webhooks.rs:419
github_pr_action_accepted(action) ==
    action \in { "opened", "synchronize", "reopened" }

\* webhooks.rs:666-667
gitlab_mr_accepted(attrs) ==
    ~(unwrap_or(attrs.action, "") \notin { "open", "update", "reopen" }
      /\ attrs.state # "opened")

\* webhooks.rs:334-336, 424-426, 475-477, 590-597, 666-678, 773-793, 828-833
handler_plan(kind, ev) ==
    CASE kind = "handle_github_push" ->
           Plan("GitHub", ev.owner, ev.name, ev.after, "check_on_push", TRUE, Normal)
      [] kind = "handle_github_pull_request" ->
           IF ~github_pr_action_accepted(ev.action) THEN Ignored
           ELSE Plan("GitHub", ev.owner, ev.name, ev.head_sha, "check_on_pr",
                     FALSE, High)
      [] kind = "handle_github_check_suite" ->
           Plan("GitHub", ev.owner, ev.name, ev.head_sha, "enabled", FALSE, High)
      [] kind = "handle_gitlab_push" ->
           LET parts == split(ev.path_with_namespace, "/")
           IN  IF Len(parts) < 2 THEN Ignored
               ELSE Plan("GitLab", parts[1], parts[Len(parts)],
                         unwrap_or(ev.checkout_sha, ev.after), "check_on_push",
                         TRUE, Normal)
      [] kind = "handle_gitlab_merge_request" ->
           LET parts == split(ev.path_with_namespace, "/")
           IN  IF ~gitlab_mr_accepted(ev.object_attributes) THEN Ignored
               ELSE IF Len(parts) < 2 THEN Ignored
               ELSE Plan("GitLab", parts[1], parts[Len(parts)],
                         ev.object_attributes.last_commit, "check_on_pr",
                         FALSE, High)
      [] kind = "handle_bitbucket_push" ->
           LET parts == split(ev.full_name, "/")
           IN  IF Len(parts) # 2 THEN Ignored
               ELSE IF ev.changes = << >> THEN Ignored
               ELSE IF ev.changes[1].new = None THEN Ignored
               ELSE Plan("Bitbucket", parts[1], parts[2], ev.changes[1].new[1],
                         "check_on_push", FALSE, Normal)
      [] kind = "handle_bitbucket_pull_request" ->
           LET parts == split(ev.full_name, "/")
           IN  IF Len(parts) # 2 THEN Ignored
               ELSE Plan("Bitbucket", parts[1], parts[2], ev.commit_hash,
                         "check_on_pr", FALSE, High)

\* the flags are not looked at
repo_accepted_any(found, flag) == found # None

\* the guards of the `match` on the repository found: webhooks.rs:351, 442,
\* 492, 611, 693, 807, 848
repo_accepted(found, flag) ==
    /\ found # None
    /\ found[1].enabled
    /\ CASE flag = "check_on_push" -> found[1].check_on_push
         [] flag = "check_on_pr" -> found[1].check_on_pr
         [] flag = "enabled" -> TRUE

\* the files of the job for the prover: its proof files for a handler that
\* filters (webhooks.rs:391-395, 639-643), vec![] otherwise
job_files(h, prover) ==
    IF h.filter THEN prover_files(h.proof_files, prover) ELSE << >>

\* the index of the next prover, from i on, the loop builds a job for
loop_next(h, i) ==
    IF h.filter THEN next_prover(h.repo, h.proof_files, i) ELSE i

\* the response of the webhook endpoint, with the calls the request made:
\* the jobs passed to scheduler.enqueue, the jobs passed to store.create_job,
\* the number of store calls and whether one of them failed
Response(status, enqueued, created, store_calls, store_failed) ==
    [status |-> status, enqueued |-> enqueued, created |-> created,
     store_calls |-> store_calls, store_failed |-> store_failed]

\* the handler returned Ok(()) (200) or an error (500): webhooks.rs:271-274
WhReturn(t, h, status) ==
    /\ wh' = [wh EXCEPT ![t] = NoHandler]
    /\ pc' = [pc EXCEPT ![t] = "idle"]
    /\ event' = Returned(t, "webhook", h.req,
                         Response(status, h.enqueued, h.created, h.store_calls,
                                  h.store_failed))

\* leaving the loop of a handle_* function at index i: Ok(()) when it is over
WhAdvance(t, h, i) ==
    IF i > Len(h.repo.enabled_provers)
    THEN WhReturn(t, h, 200)
    ELSE /\ wh' = [wh EXCEPT ![t] = [h EXCEPT !.i = i]]
         /\ pc' = [pc EXCEPT ![t] = "wh_enqueue"]
         /\ event' = NoEvent

\* a request to a webhook endpoint, from the authentication to the loop of
\* the handle_* function: webhooks.rs:238-331 with 333-387, 414-455, 471-497;
\* 517-586 with 588-636, 661-695; 714-767 with 769-809, 824-850.  The store
\* lookup fails (the handler returns the error) or succeeds
WebhookRequest(t, reqs) ==
    /\ pc[t] = "idle"
    /\ nextId <= MaxJobs
    /\ \E req \in reqs :
          LET d == IF ~authenticated(req) THEN Reply(401) ELSE dispatch(req)
              h0 == [i |-> 1, req |-> req, kind |-> d.kind, enqueued |-> << >>,
                     created |-> << >>, store_calls |-> 0, store_failed |-> FALSE]
              h1 == [h0 EXCEPT !.store_calls = 1]
          IN  IF d.kind = "none" THEN WhReturn(t, h0, d.status)
              ELSE IF handler_plan(d.kind, d.ev).ignored THEN WhReturn(t, h0, 200)
              ELSE \/ WhReturn(t, [h1 EXCEPT !.store_failed = TRUE], 500)
                   \/ LET plan == handler_plan(d.kind, d.ev)
                          found == get_repository_by_name(
                                       plan.platform, plan.owner, plan.name)
                          proof_files ==
                              IF plan.filter
                              THEN filter_proof_files(flat_map_files(d.ev.commits),
                                                      found[1].enabled_provers)
                              ELSE << >>
                          h == [i |-> 1, req |-> req, kind |-> d.kind,
                                enqueued |-> << >>, created |-> << >>,
                                store_calls |-> 1, store_failed |-> FALSE,
                                repo |-> found[1],
                                commit_sha |-> plan.commit_sha,
                                priority |-> plan.priority, filter |-> plan.filter,
                                proof_files |-> proof_files, job |-> NoJob]
                      IN  IF ~repo_accepted(found, plan.flag)
                          THEN WhReturn(t, h1, 200)
                          ELSE IF plan.filter /\ proof_files = << >>
                          THEN WhReturn(t, h1, 200)
                          ELSE WhAdvance(t, h, loop_next(h, 1))
    /\ UNCHANGED << schedVars, cur, histVars, storeVars, auxVars >>

\* ProofJob::new(..).with_priority(..) and scheduler.enqueue(job.clone()) for
\* the prover at index i: webhooks.rs:401-404, 459-462, 501-504, 649-652,
\* 698-701, 812-815, 853-856
WhEnqueue(t) ==
    /\ pc[t] = "wh_enqueue"
    /\ nextId <= MaxJobs
    /\ queue_lock = NoTask
    /\ LET h == wh[t]
           prover == h.repo.enabled_provers[h.i]
           job == with_priority(
                     ProofJobNew(nextId, h.repo.id, h.commit_sha, prover,
                                 job_files(h, prover)), h.priority)
           out == enqueue_body(queue, job)
           h2 == [h EXCEPT !.enqueued = Append(@, job)]
       IN  /\ queue' = out.queue
           /\ IF out.ret = None
              THEN /\ accepted' = accepted
                   /\ WhAdvance(t, h2, loop_next(h, h.i + 1))
              ELSE /\ accepted' = Append(accepted, job.id)
                   /\ wh' = [wh EXCEPT ![t] = [h2 EXCEPT !.job = job]]
                   /\ pc' = [pc EXCEPT ![t] = "wh_create_job"]
                   /\ event' = NoEvent
           /\ origin' = [origin EXCEPT ![nextId] = h.kind]
    /\ life' = [life EXCEPT ![nextId] = "Queued"]
    /\ nextId' = nextId + 1
    /\ UNCHANGED << running, active_count, max_concurrent, max_queue_size,
                    queue_lock, running_lock, cur, starts, decrements, storeVars,
                    auxVars >>

\* state.store.create_job(&job.into()).await?  Store::create_job inserts the
\* row, or fails and `?` ends the handler with the error: webhooks.rs:407,
\* 464, 506, 654, 703, 817, 858
WhCreateJob(t) ==
    /\ pc[t] = "wh_create_job"
    /\ LET h == wh[t]
           h2 == [h EXCEPT !.created = Append(@, h.job), !.job = NoJob,
                           !.store_calls = @ + 1]
       IN  \E store_ok \in BOOLEAN :
              IF store_ok
              THEN /\ store_jobs' = store_jobs \cup { h.job }
                   /\ WhAdvance(t, h2, loop_next(h, h.i + 1))
              ELSE /\ store_jobs' = store_jobs
                   /\ WhReturn(t, [h2 EXCEPT !.store_failed = TRUE], 500)
    /\ UNCHANGED << schedVars, cur, histVars, store_repos, auxVars >>

\* ---------------------------------------------------------------- webhook inputs
CfgSecret == "cfg-secret"

\* the configurations: no platform section at all, or a webhook secret for
\* GitHub and for GitLab
Configs ==
    { NoConfig,
      [github |-> PlatformConfig(Some(CfgSecret)),
       gitlab |-> PlatformConfig(Some(CfgSecret))] }

\* acme/thm registered on one platform
RepoRow(id, platform, enabled, check_on_push, check_on_pr) ==
    [RegisteredRepo EXCEPT !.id = id, !.platform = platform, !.enabled = enabled,
                           !.check_on_push = check_on_push,
                           !.check_on_pr = check_on_pr]

\* acme/thm registered on the three platforms with the same flags
RepoTable(enabled, check_on_push, check_on_pr) ==
    { RepoRow(1, "GitHub", enabled, check_on_push, check_on_pr),
      RepoRow(2, "GitLab", enabled, check_on_push, check_on_pr),
      RepoRow(3, "Bitbucket", enabled, check_on_push, check_on_pr) }

\* the repositories tables: nothing registered, everything on, disabled,
\* push checks off, pull-request checks off
RepoTables ==
    { {}, RepoTable(TRUE, TRUE, TRUE), RepoTable(FALSE, TRUE, TRUE),
      RepoTable(TRUE, FALSE, TRUE), RepoTable(TRUE, TRUE, FALSE) }

AcmeThm == << "acme", "/", "thm" >>

\* request bodies: `shape` names the event schema the JSON has the fields of
Garbage == [name |-> << "garbage" >>, shape |-> "none"]
GhPushMm ==
    [name |-> << "gh_push", "mm" >>, shape |-> "GitHubPushEvent", event |-> ReplayEvent]
GhPushDoc ==
    [name |-> << "gh_push", "doc" >>, shape |-> "GitHubPushEvent",
     event |-> [owner |-> "acme", name |-> "thm", after |-> "c0",
                commits |-> << [added |-> << ReadmeMd >>, modified |-> << >>] >>]]
GhPr(action) ==
    [name |-> << "gh_pr", action >>, shape |-> "GitHubPullRequestEvent",
     event |-> [owner |-> "acme", name |-> "thm", action |-> action,
                head_sha |-> "c0"]]
GhSuite(action) ==
    [name |-> << "gh_suite", action >>, shape |-> "GitHubCheckSuiteEvent",
     event |-> [owner |-> "acme", name |-> "thm", action |-> action,
                head_sha |-> "c0"]]
GlPush(path, files) ==
    [name |-> << "gl_push" >> \o path \o << Len(files) >>, shape |-> "GitLabPushEvent",
     event |-> [path_with_namespace |-> path, checkout_sha |-> None,
                after |-> "c0",
                commits |-> << [added |-> files, modified |-> << >>] >>]]
GlMr(action, state) ==
    [name |-> << "gl_mr", action, state >>, shape |-> "GitLabMergeRequestEvent",
     event |-> [path_with_namespace |-> AcmeThm,
                object_attributes |-> [action |-> action, state |-> state,
                                       last_commit |-> "c0"]]]
BbPush(new) ==
    [name |-> << "bb_push", new >>, shape |-> "BitbucketPushEvent",
     event |-> [full_name |-> AcmeThm, changes |-> << [new |-> new] >>]]
BbPr ==
    [name |-> << "bb_pr" >>, shape |-> "BitbucketPullRequestEvent",
     event |-> [full_name |-> AcmeThm, commit_hash |-> "c0"]]

Request(platform, signature, token, event_type, body) ==
    [platform |-> platform,
     headers |-> [signature |-> signature, token |-> token, event |-> event_type],
     body |-> body]

\* the X-Hub-Signature-256 value GitHub sends: the MAC of the body under the
\* configured secret
Signed(body) == Some(SignatureHeader("sha256=", TRUE, HmacSha256(CfgSecret, body)))

\* the values that must be rejected under the configured secret: no header,
\* another prefix, digits that do not decode, the zero digest, the MAC under
\* the repository's own secret, the MAC of another body
BadSignatures(body) ==
    { None,
      Some(SignatureHeader("sha1=", TRUE, HmacSha256(CfgSecret, body))),
      Some(SignatureHeader("sha256=", FALSE, HmacSha256(CfgSecret, body))),
      Some(SignatureHeader("sha256=", TRUE, ZeroDigest)),
      Some(SignatureHeader("sha256=", TRUE, HmacSha256("repo-secret", body))),
      Some(SignatureHeader("sha256=", TRUE, HmacSha256(CfgSecret, Garbage))) }

GithubDeliveries ==
    { << Some("push"), GhPushMm >>, << Some("push"), GhPushDoc >>,
      << Some("push"), Garbage >>, << Some("push"), GhPr("opened") >>,
      << Some("pull_request"), GhPr("opened") >>,
      << Some("pull_request"), GhPr("closed") >>,
      << Some("pull_request"), Garbage >>,
      << Some("check_suite"), GhSuite("requested") >>,
      << Some("check_suite"), GhSuite("completed") >>,
      << Some("check_suite"), Garbage >>,
      << Some("ping"), Garbage >>,
      << Some("issues"), GhPushMm >>, << None, GhPushMm >> }

GithubRequests ==
    { Request("GitHub", sig, None, Some("push"), GhPushMm) :
        sig \in BadSignatures(GhPushMm) }
    \cup { Request("GitHub", None, None, d[1], d[2]) :
             d \in { << Some("issues"), Garbage >>, << Some("push"), Garbage >> } }
    \cup { Request("GitHub", Signed(d[2]), None, d[1], d[2]) : d \in GithubDeliveries }

GitlabDeliveries ==
    { << Some("Push Hook"), GlPush(AcmeThm, << XLean >>) >>,
      << Some("Push Hook"), GlPush(AcmeThm, << ReadmeMd >>) >>,
      << Some("Push Hook"), GlPush(<< "thm" >>, << XLean >>) >>,
      << Some("Push Hook"), Garbage >>,
      << Some("Merge Request Hook"), GlMr(Some("open"), "opened") >>,
      << Some("Merge Request Hook"), GlMr(Some("approved"), "opened") >>,
      << Some("Merge Request Hook"), GlMr(Some("merge"), "merged") >>,
      << Some("Merge Request Hook"), GlMr(None, "closed") >>,
      << Some("Merge Request Hook"), Garbage >>,
      << Some("Note Hook"), GlPush(AcmeThm, << XLean >>) >>,
      << None, GlPush(AcmeThm, << XLean >>) >> }

\* X-Gitlab-Token: a wrong token or no header on some deliveries, the
\* configured secret on all
GitlabRequests ==
    { Request("GitLab", None, tok, d[1], d[2]) :
        tok \in { Some("wrong"), None },
        d \in { << Some("Push Hook"), GlPush(AcmeThm, << XLean >>) >>,
                << Some("Note Hook"), Garbage >> } }
    \cup { Request("GitLab", None, Some(CfgSecret), d[1], d[2]) :
             d \in GitlabDeliveries }

BitbucketRequests ==
    { Request("Bitbucket", None, None, d[1], d[2]) :
        d \in { << Some("repo:push"), BbPush(Some("c0")) >>,
                << Some("repo:push"), BbPush(None) >>,
                << Some("repo:push"), Garbage >>,
                << Some("pullrequest:created"), BbPr >>,
                << Some("pullrequest:updated"), BbPr >>,
                << Some("pullrequest:fulfilled"), BbPr >>,
                << Some("pullrequest:created"), Garbage >>,
                << None, BbPush(Some("c0")) >> } }

WebhookRequests == GithubRequests \cup GitlabRequests \cup BitbucketRequests

\* ---------------------------------------------------------------- trigger_check
\* Store::get_repository: the row with the id, if any
get_repository(id) ==
    LET rows == { r \in store_repos : r.id = id }
    IN  IF rows = {} THEN None ELSE Some(CHOOSE r \in rows : TRUE)

\* the job of a manual trigger gets the priority of a push
trigger_priority_normal == Normal

\* graphql.rs:538, 562  .with_priority(JobPriority::Critical)
trigger_priority == Critical

\* the arguments of the mutation: repo_id is the Uuid the ID string parses to
\* (of a registered or of an unknown repository) or None when it is no Uuid;
\* no commit; no prover list or an empty one
TriggerArgs ==
    [repo_id : { Some(1), Some(9), None }, commit_sha : { None },
     provers : { None, Some(<< >>) }]

\* calls for the registered repository: at HEAD or at a commit, for the
\* enabled provers, for one prover, or for a list that names a prover twice
TriggerCalls ==
    [repo_id : { Some(1) }, commit_sha : { None, Some("c0") },
     provers : { None, Some(<< "Metamath" >>),
                 Some(<< "Lean", "Lean", "Metamath" >>) }]

\* what the mutation returns, with the jobs it passed to scheduler.enqueue
TcResult(ok, job, message, enqueued) ==
    [ok |-> ok, job |-> job, error |-> message, enqueued |-> enqueued]

\* async_graphql::Error returned by the mutation
TcError(t, args, message, enqueued) ==
    /\ event' = Returned(t, "trigger_check", args,
                         TcResult(FALSE, NoJob, message, enqueued))
    /\ pc' = [pc EXCEPT ![t] = "idle"]
    /\ wh' = [wh EXCEPT ![t] = NoHandler]

\* the loop over the other provers ends at the first job that is rejected
tc_loop_next_break(h, was_accepted) ==
    IF was_accepted THEN h.i + 1 ELSE Len(h.prover_list) + 1

\* graphql.rs:555-567  the loop goes on to the next prover whether the job
\* was accepted or not
tc_loop_next(h, was_accepted) == h.i + 1

\* leaving the loop over prover_list.iter().skip(1) at index i: Ok(job.into())
\* when it is over
TcAdvance(t, h, i) ==
    IF i > Len(h.prover_list)
    THEN /\ event' = Returned(t, "trigger_check", h.args,
                              TcResult(TRUE, h.job, "", h.enqueued))
         /\ pc' = [pc EXCEPT ![t] = "idle"]
         /\ wh' = [wh EXCEPT ![t] = NoHandler]
    ELSE /\ event' = NoEvent
         /\ pc' = [pc EXCEPT ![t] = "tc_additional"]
         /\ wh' = [wh EXCEPT ![t] = [h EXCEPT !.i = i]]

\* graphql.rs:507-545  trigger_check up to the enqueue of the job of the first
\* prover: the id is no Uuid, or the store lookup fails, or finds no
\* repository, or the prover list is empty, or the job is built and passed to
\* scheduler.enqueue
TriggerCheck(t, calls) ==
    /\ pc[t] = "idle"
    /\ nextId <= MaxJobs
    /\ \E args \in calls :
          LET found == get_repository(args.repo_id[1])
              prover_list == IF args.provers = None THEN found[1].enabled_provers
                             ELSE args.provers[1]
              job == with_priority(
                        ProofJobNew(nextId, found[1].id,
                                    unwrap_or(args.commit_sha, "HEAD"),
                                    prover_list[1], << >>), trigger_priority)
              out == enqueue_body(queue, job)
              h == [i |-> 1, args |-> args, prover_list |-> prover_list,
                    job |-> job, enqueued |-> << job >>]
          IN  \/ /\ args.repo_id = None
                 /\ TcError(t, args, "Invalid repository ID", << >>)
                 /\ UNCHANGED << queue, histVars >>
              \/ /\ args.repo_id # None
                 /\ TcError(t, args, "store", << >>)
                 /\ UNCHANGED << queue, histVars >>
              \/ /\ args.repo_id # None
                 /\ found = None
                 /\ TcError(t, args, "Repository not found", << >>)
                 /\ UNCHANGED << queue, histVars >>
              \/ /\ args.repo_id # None
                 /\ found # None
                 /\ prover_list = << >>
                 /\ TcError(t, args, "No provers specified", << >>)
                 /\ UNCHANGED << queue, histVars >>
              \/ /\ args.repo_id # None
                 /\ found # None
                 /\ prover_list # << >>
                 /\ queue_lock = NoTask
                 /\ queue' = out.queue
                 /\ life' = [life EXCEPT ![nextId] = "Queued"]
                 /\ origin' = [origin EXCEPT ![nextId] = "trigger_check"]
                 /\ nextId' = nextId + 1
                 /\ UNCHANGED << starts, decrements >>
                 /\ IF out.ret = None
                    THEN /\ accepted' = accepted
                         /\ TcError(t, args, "Job already exists", << job >>)
                    ELSE /\ accepted' = Append(accepted, job.id)
                         /\ event' = NoEvent
                         /\ pc' = [pc EXCEPT ![t] = "tc_create_job"]
                         /\ wh' = [wh EXCEPT ![t] = h]
    /\ UNCHANGED << running, active_count, max_concurrent, max_queue_size,
                    queue_lock, running_lock, cur, storeVars, auxVars >>

\* graphql.rs:547-552  store.create_job for the first job: a failure ends the
\* mutation with the error
TcCreateJob(t) ==
    /\ pc[t] = "tc_create_job"
    /\ LET h == wh[t]
       IN  \/ /\ store_jobs' = store_jobs \cup { h.job }
              /\ TcAdvance(t, h, 2)
           \/ /\ store_jobs' = store_jobs
              /\ TcError(t, h.args, "store", h.enqueued)
    /\ UNCHANGED << schedVars, cur, histVars, store_repos, auxVars >>

\* graphql.rs:554-569  the job of another prover: enqueue, and create_job when
\* it was accepted; a rejection and a store failure are both ignored
TcAdditional(t) ==
    /\ pc[t] = "tc_additional"
    /\ nextId <= MaxJobs
    /\ queue_lock = NoTask
    /\ LET h == wh[t]
           additional_job ==
               with_priority(
                   ProofJobNew(nextId, h.job.repo_id, h.job.commit_sha,
                               h.prover_list[h.i], << >>), trigger_priority)
           out == enqueue_body(queue, additional_job)
           h2 == [h EXCEPT !.enqueued = Append(@, additional_job)]
       IN  /\ queue' = out.queue
           /\ IF out.ret = None
              THEN /\ accepted' = accepted
                   /\ store_jobs' = store_jobs
              ELSE /\ accepted' = Append(accepted, additional_job.id)
                   /\ \/ store_jobs' = store_jobs \cup { additional_job }
                      \/ store_jobs' = store_jobs
           /\ TcAdvance(t, h2, tc_loop_next(h, out.ret # None))
    /\ life' = [life EXCEPT ![nextId] = "Queued"]
    /\ origin' = [origin EXCEPT ![nextId] = "trigger_check"]
    /\ nextId' = nextId + 1
    /\ UNCHANGED << running, active_count, max_concurrent, max_queue_size,
                    queue_lock, running_lock, cur, starts, decrements,
                    store_repos, auxVars >>

\* one delivery for each handle_* function, with no secret configured
HandlerRequests ==
    { Request("GitHub", None, None, Some("push"), GhPushMm),
      Request("GitHub", None, None, Some("pull_request"), GhPr("opened")),
      Request("GitHub", None, None, Some("check_suite"), GhSuite("requested")),
      Request("GitLab", None, None, Some("Push Hook"), GlPush(AcmeThm, << XLean >>)),
      Request("GitLab", None, None, Some("Merge Request Hook"),
              GlMr(Some("open"), "opened")),
      Request("Bitbucket", None, None, Some("repo:push"), BbPush(Some("c0"))),
      Request("Bitbucket", None, None, Some("pullrequest:created"), BbPr) }

\* ---------------------------------------------------------------- registration
\* Repository::new(platform, owner, name) with a fresh id: every flag on, no
\* provers and no secret yet
RepositoryNew(id, platform, owner, name) ==
    [id |-> id, platform |-> platform, owner |-> owner, name |-> name,
     enabled_provers |-> << >>, enabled |-> TRUE, check_on_push |-> TRUE,
     check_on_pr |-> TRUE, webhook_secret |-> None]

\* Uuid::new_v4: an id no row has
NewRepoId ==
    CHOOSE n \in 1..(Cardinality(store_repos) + 1) :
        \A r \in store_repos : r.id # n

\* the unique index on (platform, owner, name): a row with the key of repo
KeyTaken(repo) ==
    get_repository_by_name(repo.platform, repo.owner, repo.name) # None

\* the result of a mutation or command: the repository, or an error that is
\* a failure of the storage itself (`outage`) or another one
RegOk(repo) == [ok |-> TRUE, repo |-> repo, error |-> "", outage |-> FALSE]
RegErr(message, outage) ==
    [ok |-> FALSE, repo |-> None, error |-> message, outage |-> outage]

RegReturn(t, op, input, result) ==
    /\ event' = Returned(t, op, input, result)
    /\ pc' = [pc EXCEPT ![t] = "idle"]
    /\ wh' = [wh EXCEPT ![t] = NoHandler]

\* Store::create_repository called by `op` with the repository built from
\* the input: the insert fails on the unique index or on an outage, or the
\* row is added
CreateRepository(t, op) ==
    LET h == wh[t]
        repo == [RepositoryNew(NewRepoId, h.platform, h.owner, h.name)
                    EXCEPT !.enabled_provers = h.provers,
                           !.webhook_secret = h.webhook_secret]
    IN  \/ /\ KeyTaken(repo)
           /\ store_repos' = store_repos
           /\ RegReturn(t, op, h.input, RegErr("UNIQUE constraint failed", FALSE))
        \/ /\ ~KeyTaken(repo)
           /\ store_repos' = store_repos \cup { repo }
           /\ RegReturn(t, op, h.input, RegOk(repo))
        \/ /\ store_repos' = store_repos
           /\ RegReturn(t, op, h.input, RegErr("store", TRUE))

\* the state of a registration between its lookup and its insert
RegHandler(input, platform, owner, name, provers, webhook_secret) ==
    [i |-> 0, input |-> input, platform |-> platform, owner |-> owner,
     name |-> name, provers |-> provers, webhook_secret |-> webhook_secret]

\* the inputs of the mutation: RegisterRepoInput for acme/thm on GitHub,
\* without provers, with none or with Lean
RegisterInputs ==
    [platform : { "GitHub" }, owner : { "acme" }, name : { "thm" },
     enabled_provers : { None, Some(<< >>), Some(<< "Lean" >>) },
     webhook_secret : { None }]

\* graphql.rs:467-489  register_repository up to the end of the lookup: the
\* lookup fails, or the repository exists and is returned, or the provers of
\* the new repository are worked out
RegisterRepository(t) ==
    /\ pc[t] = "idle"
    /\ \E input \in RegisterInputs :
          LET existing == get_repository_by_name(input.platform, input.owner,
                                                 input.name)
              provers == unwrap_or(input.enabled_provers, << "Metamath" >>)
          IN  \/ RegReturn(t, "register_repository", input, RegErr("store", TRUE))
              \/ /\ existing # None
                 /\ RegReturn(t, "register_repository", input, RegOk(existing[1]))
              \/ /\ existing = None
                 /\ event' = NoEvent
                 /\ pc' = [pc EXCEPT ![t] = "reg_create"]
                 /\ wh' = [wh EXCEPT ![t] =
                             RegHandler(input, input.platform, input.owner,
                                        input.name, provers, input.webhook_secret)]
    /\ UNCHANGED << schedVars, cur, histVars, storeVars, auxVars >>

\* graphql.rs:491-503  the repository is built and created
RegisterCreate(t) ==
    /\ pc[t] = "reg_create"
    /\ CreateRepository(t, "register_repository")
    /\ UNCHANGED << schedVars, cur, histVars, store_jobs, auxVars >>

\* str::split(sep) on a string given as the sequence of its characters
RECURSIVE split_char(_, _)
split_char(str, sep) ==
    LET S == { i \in 1..Len(str) : str[i] = sep }
    IN  IF S = {} THEN << str >>
        ELSE LET i == CHOOSE k \in S : \A m \in S : k <= m
             IN  << SubSeq(str, 1, i - 1) >>
                     \o split_char(SubSeq(str, i + 1, Len(str)), sep)

\* str::trim on strings whose only white space is the space
RECURSIVE trim(_)
trim(str) ==
    IF str = << >> THEN str
    ELSE IF Head(str) = " " THEN trim(Tail(str))
    ELSE IF str[Len(str)] = " " THEN trim(SubSeq(str, 1, Len(str) - 1))
    ELSE str

\* main.rs:655-671  parse_prover
parse_prover(str) ==
    LET low == to_lowercase(str)
    IN  CASE low = << "a", "g", "d", "a" >> -> Some("Agda")
          [] low = << "c", "o", "q" >> -> Some("Coq")
          [] low = << "l", "e", "a", "n" >> -> Some("Lean")
          [] low = << "i", "s", "a", "b", "e", "l", "l", "e" >> -> Some("Isabelle")
          [] low = << "z", "3" >> -> Some("Z3")
          [] low = << "c", "v", "c", "5" >> -> Some("Cvc5")
          [] low = << "m", "e", "t", "a", "m", "a", "t", "h" >> -> Some("Metamath")
          [] low = << "m", "m" >> -> Some("Metamath")
          [] low = << "h", "o", "l", "-", "l", "i", "g", "h", "t" >> -> Some("HolLight")
          [] low = << "h", "o", "l", "l", "i", "g", "h", "t" >> -> Some("HolLight")
          [] low = << "m", "i", "z", "a", "r" >> -> Some("Mizar")
          [] low = << "p", "v", "s" >> -> Some("Pvs")
          [] low = << "a", "c", "l", "2" >> -> Some("Acl2")
          [] low = << "h", "o", "l", "4" >> -> Some("Hol4")
          [] OTHER -> None

\* Iterator::filter_map(|p| parse_prover(p.trim())).collect()
RECURSIVE filter_map_provers(_)
filter_map_provers(parts) ==
    IF parts = << >> THEN << >>
    ELSE parse_prover(trim(Head(parts))) \o filter_map_provers(Tail(parts))

\* main.rs:330-337  the platform named on the command line
parse_platform(str) ==
    LET low == to_lowercase(str)
    IN  CASE low = << "g", "i", "t", "h", "u", "b" >> -> Some("GitHub")
          [] low = << "g", "i", "t", "l", "a", "b" >> -> Some("GitLab")
          [] low = << "b", "i", "t", "b", "u", "c", "k", "e", "t" >> -> Some("Bitbucket")
          [] low = << "c", "o", "d", "e", "b", "e", "r", "g" >> -> Some("Codeberg")
          [] OTHER -> None

\* the command lines of `echidnabot register`: acme/thm on GitHub with the
\* provers "lean", "mm, Lean", "" and "prolog", a repository name without
\* owner, and an unknown platform
CliLine(repo, platform, provers) ==
    [repo |-> repo, platform |-> platform, provers |-> provers,
     webhook_secret |-> None]

CliArgs ==
    { CliLine(AcmeThm, << "G", "i", "t", "H", "u", "b" >>, provers) :
         provers \in { << "l", "e", "a", "n" >>,
                       << "m", "m", ",", " ", "L", "e", "a", "n" >>,
                       << >>,
                       << "p", "r", "o", "l", "o", "g" >> } }
      \cup { CliLine(<< "thm" >>, << "G", "i", "t", "H", "u", "b" >>,
                     << "l", "e", "a", "n" >>),
             CliLine(AcmeThm, << "s", "v", "n" >>, << "l", "e", "a", "n" >>) }

\* main.rs:312-357  register up to the end of the lookup: the arguments are
\* parsed and rejected, or the lookup fails, or the repository exists, or it
\* is going to be created
CliRegister(t) ==
    /\ pc[t] = "idle"
    /\ \E args \in CliArgs :
          LET parts == split(args.repo, "/")
              platform == parse_platform(args.platform)
              enabled_provers == filter_map_provers(split_char(args.provers, ","))
              existing == get_repository_by_name(platform[1], parts[1], parts[2])
          IN  IF Len(parts) # 2
              THEN RegReturn(t, "register", args,
                             RegErr("Repository must be in format owner/name", FALSE))
              ELSE IF platform = None
              THEN RegReturn(t, "register", args, RegErr("Unknown platform", FALSE))
              ELSE IF enabled_provers = << >>
              THEN RegReturn(t, "register", args,
                             RegErr("No valid provers specified", FALSE))
              ELSE \/ RegReturn(t, "register", args, RegErr("store", TRUE))
                   \/ /\ existing # None
                      /\ RegReturn(t, "register", args, RegOk(existing[1]))
                   \/ /\ existing = None
                      /\ event' = NoEvent
                      /\ pc' = [pc EXCEPT ![t] = "cli_create"]
                      /\ wh' = [wh EXCEPT ![t] =
                                  RegHandler(args, platform[1], parts[1], parts[2],
                                             enabled_provers, args.webhook_secret)]
    /\ UNCHANGED << schedVars, cur, histVars, storeVars, auxVars >>

\* main.rs:359-364  the repository is built and created
CliRegisterCreate(t) ==
    /\ pc[t] = "cli_create"
    /\ CreateRepository(t, "register")
    /\ UNCHANGED << schedVars, cur, histVars, store_jobs, auxVars >>

\* the arguments of update_repo_settings: the id of the first row, and
\* RepoSettingsInput without provers, with none or with Lean
SettingsArgs ==
    [repo_id : { Some(1) },
     settings : [webhook_secret : { None },
                 enabled_provers : { None, Some(<< >>), Some(<< "Lean" >>) },
                 check_on_push : { None },
                 check_on_pr : { None }]]

\* graphql.rs:613-631  the fields given replace those of the repository
apply_settings(repo, settings) ==
    [repo EXCEPT
        !.webhook_secret = IF settings.webhook_secret # None
                           THEN Some(settings.webhook_secret[1]) ELSE @,
        !.enabled_provers = unwrap_or(settings.enabled_provers, @),
        !.check_on_push = unwrap_or(settings.check_on_push, @),
        !.check_on_pr = unwrap_or(settings.check_on_pr, @)]

\* graphql.rs:598-631  update_repo_settings up to the end of the lookup
UpdateRepoSettings(t) ==
    /\ pc[t] = "idle"
    /\ \E args \in SettingsArgs :
          LET found == get_repository(args.repo_id[1])
          IN  \/ RegReturn(t, "update_repo_settings", args, RegErr("store", TRUE))
              \/ /\ found = None
                 /\ RegReturn(t, "update_repo_settings", args,
                              RegErr("Repository not found", FALSE))
              \/ /\ found # None
                 /\ event' = NoEvent
                 /\ pc' = [pc EXCEPT ![t] = "update_repository"]
                 /\ wh' = [wh EXCEPT ![t] =
                             [i |-> 0, input |-> args,
                              repo |-> apply_settings(found[1], args.settings)]]
    /\ UNCHANGED << schedVars, cur, histVars, storeVars, auxVars >>

\* graphql.rs:635-641  Store::update_repository: the row with the id of the
\* repository is replaced, unless the storage fails
UpdateRepository(t) ==
    /\ pc[t] = "update_repository"
    /\ LET h == wh[t]
       IN  \/ /\ store_repos' =
                    { IF r.id = h.repo.id THEN h.repo ELSE r : r \in store_repos }
              /\ RegReturn(t, "update_repo_settings", h.input, RegOk(h.repo))
           \/ /\ store_repos' = store_repos
              /\ RegReturn(t, "update_repo_settings", h.input, RegErr("store", TRUE))
    /\ UNCHANGED << schedVars, cur, histVars, store_jobs, auxVars >>

\* Store::delete_repository(id): the row is deleted, and with it the jobs of
\* the repository in the proof_jobs table
store_delete_repository(id) ==
    [repos |-> { r \in store_repos : r.id # id },
     jobs |-> { j \in store_jobs : j.repo_id # id }]

\* graphql.rs:687-701  delete_repository(repo_id): no Uuid, or the store
\* fails, or the store deletes the repository and the mutation returns true
DeleteRepository(t) ==
    /\ pc[t] = "idle"
    /\ \E repo_id \in { Some(1), None }, store_ok \in BOOLEAN :
          IF repo_id = None
          THEN /\ event' = Returned(t, "delete_repository", repo_id,
                                    [ok |-> FALSE, error |-> "Invalid repository ID"])
               /\ UNCHANGED storeVars
          ELSE IF ~store_ok
          THEN /\ event' = Returned(t, "delete_repository", repo_id,
                                    [ok |-> FALSE, error |-> "store"])
               /\ UNCHANGED storeVars
          ELSE /\ event' = Returned(t, "delete_repository", repo_id,
                                    [ok |-> TRUE, error |-> ""])
               /\ store_repos' = store_delete_repository(repo_id[1]).repos
               /\ store_jobs' = store_delete_repository(repo_id[1]).jobs
    /\ UNCHANGED << schedVars, taskVars, histVars, wh, auxVars >>

\* ---------------------------------------------------------------- verifier client
\* a string is the sequence of its characters
\* echidna_client.rs:63-66  the prefix of the message for a non-success status
EchidnaReturnedStatus ==
    << "E", "C", "H", "I", "D", "N", "A", " ", "r", "e", "t", "u", "r", "n",
       "e", "d", " ", "s", "t", "a", "t", "u", "s", " " >>

\* echidna_client.rs:81
NoDataInResponse ==
    << "N", "o", " ", "d", "a", "t", "a", " ", "i", "n", " ", "r", "e", "s",
       "p", "o", "n", "s", "e" >>

CommaSpace ==
    << ",", " " >>

\* http::StatusCode::canonical_reason for the status codes modelled
canonical_reason(code) ==
    CASE code = 200 -> << "O", "K" >>
      [] code = 429 ->
         << "T", "o", "o", " ", "M", "a", "n", "y", " ", "R", "e", "q", "u",
            "e", "s", "t", "s" >>
      [] code = 500 ->
         << "I", "n", "t", "e", "r", "n", "a", "l", " ", "S", "e", "r", "v",
            "e", "r", " ", "E", "r", "r", "o", "r" >>
      [] code = 503 ->
         << "S", "e", "r", "v", "i", "c", "e", " ", "U", "n", "a", "v", "a",
            "i", "l", "a", "b", "l", "e" >>

\* the decimal digits of a three-digit status code
Digit(d) == << "0", "1", "2", "3", "4", "5", "6", "7", "8", "9" >>[d + 1]
code_digits(code) ==
    << Digit(code \div 100), Digit((code \div 10) % 10), Digit(code % 10) >>

\* Display of http::StatusCode: the code, a space, the canonical reason
status_display(code) == code_digits(code) \o << " " >> \o canonical_reason(code)

\* StatusCode::is_success
is_success(code) == 200 <= code /\ code <= 299

\* str::to_uppercase
to_uppercase(f) ==
    [i \in 1..Len(f) |->
        IF \E k \in 1..Len(LowerCase) : LowerCase[k] = f[i]
        THEN UpperCase[CHOOSE k \in 1..Len(LowerCase) : LowerCase[k] = f[i]]
        ELSE f[i]]

\* echidna_client.rs:292-300  parse_proof_status
parse_proof_status(str) ==
    LET up == to_uppercase(str)
    IN  CASE up \in { << "V", "E", "R", "I", "F", "I", "E", "D" >>,
                      << "P", "A", "S", "S" >>,
                      << "S", "U", "C", "C", "E", "S", "S" >> } -> "Verified"
          [] up \in { << "F", "A", "I", "L", "E", "D" >>,
                      << "F", "A", "I", "L" >> } -> "Failed"
          [] up = << "T", "I", "M", "E", "O", "U", "T" >> -> "Timeout"
          [] up = << "E", "R", "R", "O", "R" >> -> "Error"
          [] OTHER -> "Unknown"

\* Vec<String>::join(sep)
RECURSIVE join(_, _)
join(strs, sep) ==
    IF strs = << >> THEN << >>
    ELSE IF Len(strs) = 1 THEN strs[1]
    ELSE strs[1] \o sep \o join(Tail(strs), sep)

\* crate::Error: the variant and its message; Error::Http carries the
\* reqwest::Error, given by its kind
Error(variant, message) == [variant |-> variant, message |-> message]

\* what the verifier's endpoint does with a request: the connection fails or
\* an HTTP response arrives with a status and a body that decodes to a
\* GraphQLResponse { data, errors } or does not
VerifierReply(sent, status, decodes, errors, data) ==
    [sent |-> sent, status |-> status, decodes |-> decodes, errors |-> errors,
     data |-> data]

\* echidna_client.rs:69-70  response.json().await.map_err(Error::Http)
decode_error(kind) == Error("Http", kind)

\* echidna_client.rs:34-91  EchidnaClient::verify_proof, after the request
\* was sent
verify_proof(reply) ==
    IF ~reply.sent
    THEN [ok |-> FALSE, error |-> Error("Http", << "c", "o", "n", "n", "e", "c", "t" >>)]
    ELSE IF ~is_success(reply.status)
    THEN [ok |-> FALSE,
          error |-> Error("Echidna",
                          EchidnaReturnedStatus \o status_display(reply.status))]
    ELSE IF ~reply.decodes
    THEN [ok |-> FALSE, error |-> decode_error(<< "d", "e", "c", "o", "d", "e" >>)]
    ELSE IF reply.errors # None
    THEN [ok |-> FALSE, error |-> Error("Echidna", join(reply.errors[1], CommaSpace))]
    ELSE IF reply.data = None
    THEN [ok |-> FALSE, error |-> Error("Echidna", NoDataInResponse)]
    ELSE [ok |-> TRUE,
          value |-> [status |-> parse_proof_status(reply.data[1].status)]]

\* the replies of the verifier: no connection, the statuses 500, 503 and 429,
\* a body that is no JSON, a GraphQL error, a response without data, and a
\* verdict
RateLimitExceeded ==
    << "R", "a", "t", "e", " ", "l", "i", "m", "i", "t", " ", "e", "x", "c",
       "e", "e", "d", "e", "d" >>

VerifierReplies ==
    { VerifierReply(FALSE, 0, FALSE, None, None),
      VerifierReply(TRUE, 500, TRUE, None, None),
      VerifierReply(TRUE, 503, TRUE, None, None),
      VerifierReply(TRUE, 429, TRUE, None, None),
      VerifierReply(TRUE, 200, FALSE, None, None),
      VerifierReply(TRUE, 200, TRUE, Some(<< RateLimitExceeded >>), None),
      VerifierReply(TRUE, 200, TRUE, None, None),
      VerifierReply(TRUE, 200, TRUE, None,
                    Some([status |-> << "p", "a", "s", "s" >>])) }

\* ---------------------------------------------------------------- retry
\* the RetryConfig values a caller passes: RetryConfig::default() has
\* initial_backoff 1 s, max_backoff 60 s, multiplier 2.0 and jitter; retry()
\* and retry_with_backoff() replace max_retries and initial_backoff, with_config
\* takes any RetryConfig; durations are in milliseconds
RetryConfigs ==
    [max_retries : 0..MaxRetriesCfg, initial_backoff : {1000, 5000},
     max_backoff : {3000, 60000}, multiplier : {2}, jitter : BOOLEAN]

\* the result of the n-th invocation of the operation: Ok, or an error that
\* the caller's is_retryable accepts or not
Outcomes(n) ==
    { [ok |-> TRUE, invocation |-> n, retryable |-> FALSE] }
        \cup [ok : {FALSE}, invocation : {n}, retryable : BOOLEAN]

\* every error is retried
is_retryable_always(error) == TRUE

\* the predicate `is_retryable` the caller passes to execute
is_retryable(error) == error.retryable

\* off by one: `>=` written for `>`
retries_exhausted_ge(attempt, max_retries) == attempt >= max_retries

\* retry.rs:98  attempt > self.config.max_retries
retries_exhausted(attempt, max_retries) == attempt > max_retries

\* the error of the first invocation is kept and returned
RetryErr_first(error) == [ok |-> FALSE, error |-> [error EXCEPT !.invocation = 1]]

\* retry.rs:103, :108  return Err(error), the error this invocation produced
RetryErr(error) == [ok |-> FALSE, error |-> error]

\* retry.rs:93  return Ok(result)
RetryOk(out) == [ok |-> TRUE, error |-> out]

\* retry.rs:112-117  the delay: the backoff, or with jitter the backoff times
\* a factor of [0.5, 1.0); the two ends of the range are modelled
jitter_delays(cfg, backoff) ==
    IF cfg.jitter THEN { backoff \div 2, backoff - 1 } ELSE { backoff }

Min(a, b) == IF a <= b THEN a ELSE b

\* retry.rs:127-130  backoff * multiplier, capped at max_backoff
next_backoff(cfg, backoff) == Min(backoff * cfg.multiplier, cfg.max_backoff)

\* str::contains
contains(str, pat) ==
    \E i \in 0..(Len(str) - Len(pat)) : SubSeq(str, i + 1, i + Len(pat)) = pat

\* the patterns without temporary and 504
EchidnaPatterns_short ==
    { << "t", "i", "m", "e", "o", "u", "t" >>,
      << "u", "n", "a", "v", "a", "i", "l", "a", "b", "l", "e" >>,
      << "r", "a", "t", "e", " ", "l", "i", "m", "i", "t" >>,
      << "5", "0", "3" >> }

\* retry.rs:163-168  the patterns of a transient Error::Echidna
EchidnaPatterns ==
    { << "t", "i", "m", "e", "o", "u", "t" >>,
      << "u", "n", "a", "v", "a", "i", "l", "a", "b", "l", "e" >>,
      << "r", "a", "t", "e", " ", "l", "i", "m", "i", "t" >>,
      << "t", "e", "m", "p", "o", "r", "a", "r", "y" >>,
      << "5", "0", "3" >>,
      << "5", "0", "4" >> }

\* retry.rs:174-176  the patterns of a transient Error::Sqlx
SqlxPatterns ==
    { << "c", "o", "n", "n", "e", "c", "t", "i", "o", "n" >>,
      << "t", "i", "m", "e", "o", "u", "t" >>,
      << "d", "e", "a", "d", "l", "o", "c", "k" >> }

\* retry.rs:155-188  is_transient_error
is_transient_error(error) ==
    CASE error.variant = "Http" -> TRUE
      [] error.variant = "Echidna" ->
            \E pat \in EchidnaPatterns : contains(to_lowercase(error.message), pat)
      [] error.variant = "Sqlx" ->
            \E pat \in SqlxPatterns : contains(to_lowercase(error.message), pat)
      [] OTHER -> FALSE

\* the messages of the errors classified
ErrorMessages ==
    { << "t", "i", "m", "e", "o", "u", "t" >>,
      << "T", "I", "M", "E", "O", "U", "T" >>,
      << "5", "0", "3", " ", "u", "n", "a", "v", "a", "i", "l", "a", "b", "l", "e" >>,
      << "S", "e", "r", "v", "i", "c", "e", " ", "U", "n", "a", "v", "a", "i", "l", "a", "b", "l", "e" >>,
      << "R", "a", "t", "e", " ", "L", "i", "m", "i", "t", " ", "e", "x", "c", "e", "e", "d", "e", "d" >>,
      << "t", "e", "m", "p", "o", "r", "a", "r", "y", " ", "f", "a", "i", "l", "u", "r", "e" >>,
      << "H", "T", "T", "P", " ", "5", "0", "4" >>,
      << "b", "a", "d" >>,
      << "c", "o", "n", "n", "e", "c", "t", "i", "o", "n", " ", "r", "e", "f", "u", "s", "e", "d" >>,
      << "D", "e", "a", "d", "l", "o", "c", "k", " ", "d", "e", "t", "e", "c", "t", "e", "d" >>,
      << "p", "r", "o", "o", "f", " ", "r", "e", "j", "e", "c", "t", "e", "d" >>,
      << "t", "i", "m", "e", " ", "o", "u", "t" >>,
      << >>,
      << "5", " ", "0", " ", "3" >> }

\* the errors classified: the variants is_transient_error names, and a
\* platform API error and an I/O error for its last arm
ClassifiedErrors ==
    { Error(v, m) : v \in { "Http", "Echidna", "Sqlx", "Internal", "Config",
                            "InvalidInput", "GitHub", "Io" },
                    m \in ErrorMessages }

\* retry.rs:155-188  is_transient_error is asked about an error
ClassifyError ==
    \E error \in ClassifiedErrors :
        /\ event' = Returned(0, "is_transient_error", error,
                             is_transient_error(error))
        /\ UNCHANGED << schedVars, taskVars, histVars, storeVars, wh, auxVars >>

otherVars ==
    << schedVars, taskVars, event, histVars, storeVars, wh, config, exec, rd >>

\* retry.rs:74-85  a caller enters execute with its RetryConfig
RetryExecute ==
    /\ retry.pc = "none"
    /\ \E cfg \in RetryConfigs :
          retry' = [pc |-> "operation", op |-> "operation", cfg |-> cfg,
                    attempt |-> 0,
                    backoff |-> cfg.initial_backoff, log |-> << >>,
                    sleeps |-> << >>, delay |-> 0, result |-> RetryOk(None)]
    /\ UNCHANGED otherVars

\* retry.rs:88-122  operation().await returned `out`, and the predicate says
\* `retryable` of its error: Ok is returned at once, an error is returned when
\* the retries are used up or it is not retryable, otherwise the delay is
\* computed
RetryMatch(out, retryable) ==
    LET r == [retry EXCEPT !.log = Append(@, out)]
        attempt == retry.attempt + 1
    IN  IF out.ok
        THEN retry' = [r EXCEPT !.pc = "done", !.result = RetryOk(out)]
        ELSE IF retries_exhausted(attempt, retry.cfg.max_retries)
        THEN retry' = [r EXCEPT !.pc = "done", !.attempt = attempt,
                                !.result = RetryErr(out)]
        ELSE IF ~retryable
        THEN retry' = [r EXCEPT !.pc = "done", !.attempt = attempt,
                                !.result = RetryErr(out)]
        ELSE \E d \in jitter_delays(retry.cfg, retry.backoff) :
                retry' = [r EXCEPT !.pc = "sleep", !.attempt = attempt,
                                   !.delay = d]

\* execute with an operation and a predicate of the caller
RetryOperation ==
    /\ retry.pc = "operation"
    /\ \E out \in Outcomes(Len(retry.log) + 1) : RetryMatch(out, is_retryable(out))
    /\ UNCHANGED otherVars

\* retry.rs:201-213  retry(max_attempts, operation): RetryConfig::default()
\* with max_retries replaced
AutoConfigs ==
    { cfg \in RetryConfigs :
         cfg.initial_backoff = 1000 /\ cfg.max_backoff = 60000 /\ cfg.jitter }

\* retry.rs:137-145  execute_auto entered through retry() by a caller whose
\* operation is EchidnaClient::verify_proof
RetryExecuteAuto ==
    /\ retry.pc = "none"
    /\ \E cfg \in AutoConfigs :
          retry' = [pc |-> "verify_proof", op |-> "verify_proof", cfg |-> cfg,
                    attempt |-> 0,
                    backoff |-> cfg.initial_backoff, log |-> << >>,
                    sleeps |-> << >>, delay |-> 0, result |-> RetryOk(None)]
    /\ UNCHANGED otherVars

\* retry.rs:142  self.execute(operation, is_transient_error): verify_proof
\* returns for some reply of the verifier
VerifyProofOperation ==
    /\ retry.pc = "verify_proof"
    /\ \E reply \in VerifierReplies :
          LET res == verify_proof(reply)
              out == [ok |-> res.ok, invocation |-> Len(retry.log) + 1,
                      reply |-> reply, result |-> res]
          IN  RetryMatch(out, ~res.ok /\ is_transient_error(res.error))
    /\ UNCHANGED otherVars

\* retry.rs:124-130  sleep(delay).await is over, the backoff grows and the
\* loop calls the operation again
RetrySleep ==
    /\ retry.pc = "sleep"
    /\ retry' = [retry EXCEPT !.pc = retry.op,
                              !.sleeps = Append(@, retry.delay),
                              !.backoff = next_backoff(retry.cfg, retry.backoff)]
    /\ UNCHANGED otherVars

\* ---------------------------------------------------------------- executor
\* SecurityProfile
SecurityProfile == { "Maximum", "Standard", "Minimal" }

\* the timeouts an executor is built with (with_timeout), in ticks of the
\* clock
Timeouts == { 1, 2 }

\* what `docker info --format {{.Runtimes}}` does: the command cannot be run,
\* or exits with a failure, or prints the runtimes
Runc == << "r", "u", "n", "c" >>
RuncRunsc == << "r", "u", "n", "c", " ", "r", "u", "n", "s", "c" >>
DockerInfos ==
    [ran : BOOLEAN, success : BOOLEAN, stdout : { Runc, RuncRunsc }]

\* container.rs:130-144  check_gvisor
check_gvisor(output) ==
    IF output.ran /\ output.success
    THEN contains(output.stdout, << "r", "u", "n", "s", "c" >>)
    ELSE FALSE

\* ExitStatus::code of the child: Some(code), or None when a signal ended it
ExitCodes == { Some(0), Some(1), Some(137), None }

\* Result<ExecutionResult>
ExecutionResult(success, exit_code, duration_ms, timed_out, oom_killed) ==
    [ok |-> TRUE, success |-> success, exit_code |-> exit_code,
     duration_ms |-> duration_ms, timed_out |-> timed_out,
     oom_killed |-> oom_killed, error |-> ""]
ExecErr(message) ==
    [ok |-> FALSE, success |-> FALSE, exit_code |-> None, duration_ms |-> 0,
     timed_out |-> FALSE, oom_killed |-> FALSE, error |-> message]

\* every run that failed is reported as killed for memory
CompletedResult_any_failure(code, duration) ==
    ExecutionResult(code = Some(0), code, duration, FALSE, code # Some(0))

\* container.rs:255-270  the child completed within the timeout
CompletedResult(code, duration) ==
    ExecutionResult(code = Some(0), code, duration, FALSE, code = Some(137))

\* the timeout is reported as a failed run that was not timed out
TimedOutResult_failed(duration) ==
    ExecutionResult(FALSE, None, duration, FALSE, FALSE)

\* container.rs:279-287  the result of a run that timed out
TimedOutResult(duration) == ExecutionResult(FALSE, None, duration, TRUE, FALSE)

execOther ==
    << schedVars, taskVars, histVars, storeVars, wh, config, retry, rd >>

\* ContainerExecutor::new().with_profile(..).with_timeout(..): use_gvisor is
\* false; `detections` counts the runs of check_gvisor, `calls` those of
\* execute_proof
ExecutorNew ==
    /\ exec.pc = "none"
    /\ \E profile \in SecurityProfile, timeout \in Timeouts :
          exec' = [pc |-> "idle", profile |-> profile, timeout |-> timeout,
                   use_gvisor |-> FALSE, detections |-> 0, calls |-> 0,
                   runsc |-> FALSE, child |-> "none", code |-> None,
                   waited |-> 0]
    /\ event' = NoEvent
    /\ UNCHANGED execOther

\* container.rs:155-161  execute_proof is entered (&mut self: one call at a
\* time) and decides whether to detect gVisor
ExecuteProof ==
    /\ exec.pc = "idle"
    /\ exec.calls < MaxExecCalls
    /\ exec' = [exec EXCEPT
                  !.calls = @ + 1,
                  !.waited = 0,
                  !.pc = IF ~exec.use_gvisor /\ exec.profile = "Maximum"
                         THEN "check_gvisor" ELSE "spawn"]
    /\ event' = NoEvent
    /\ UNCHANGED execOther

\* container.rs:162-166  self.use_gvisor = Self::check_gvisor().await?
ExecCheckGvisor ==
    /\ exec.pc = "check_gvisor"
    /\ \E output \in DockerInfos :
          exec' = [exec EXCEPT !.use_gvisor = check_gvisor(output),
                               !.detections = @ + 1,
                               !.pc = "spawn"]
    /\ event' = NoEvent
    /\ UNCHANGED execOther

ExecReturn(result) ==
    /\ event' = Returned(0, "execute_proof", [call |-> exec.calls], result)
    /\ UNCHANGED execOther

\* container.rs:171-236  the docker command is built, with --runtime=runsc
\* when gVisor is used under the Maximum profile, and spawned
ExecSpawn ==
    /\ exec.pc = "spawn"
    /\ LET runsc == exec.use_gvisor /\ exec.profile = "Maximum"
       IN  \/ /\ exec' = [exec EXCEPT !.pc = "idle", !.runsc = runsc,
                                      !.child = "none"]
              /\ ExecReturn(ExecErr("Failed to spawn Docker container"))
           \/ /\ exec' = [exec EXCEPT !.pc = "write_stdin", !.runsc = runsc,
                                      !.child = "running", !.code = None]
              /\ event' = NoEvent
              /\ UNCHANGED execOther

\* container.rs:238-245  the proof is written to the child's stdin
ExecWriteStdin ==
    /\ exec.pc = "write_stdin"
    /\ \/ /\ exec' = [exec EXCEPT !.pc = "idle"]
          /\ ExecReturn(ExecErr("Failed to write to container stdin"))
       \/ /\ exec' = [exec EXCEPT !.pc = "wait"]
          /\ event' = NoEvent
          /\ UNCHANGED execOther

\* the child process ends by itself, with an exit code or by a signal
ChildExit ==
    /\ exec.pc \in { "write_stdin", "wait" }
    /\ exec.child = "running"
    /\ \E code \in ExitCodes :
          exec' = [exec EXCEPT !.child = "exited", !.code = code]
    /\ event' = NoEvent
    /\ UNCHANGED execOther

\* the clock advances while tokio::time::timeout(self.timeout, child.wait())
\* is pending
ExecTick ==
    /\ exec.pc = "wait"
    /\ exec.child = "running"
    /\ exec.waited < exec.timeout
    /\ exec' = [exec EXCEPT !.waited = @ + 1]
    /\ event' = NoEvent
    /\ UNCHANGED execOther

\* container.rs:248-272  child.wait() is ready before the timeout is: the
\* status of the child, or the error of wait
ExecWaitReturns ==
    /\ exec.pc = "wait"
    /\ exec.child = "exited"
    /\ exec' = [exec EXCEPT !.pc = "idle"]
    /\ \/ ExecReturn(CompletedResult(exec.code, exec.waited))
       \/ ExecReturn(ExecErr("Container execution failed"))

\* container.rs:273-288  the timeout elapsed with the child still running:
\* child.kill().await, then the result
ExecTimedOut ==
    /\ exec.pc = "wait"
    /\ exec.child = "running"
    /\ exec.waited >= exec.timeout
    /\ exec' = [exec EXCEPT !.pc = "idle", !.child = "killed"]
    /\ ExecReturn(TimedOutResult(exec.waited))

\* ---------------------------------------------------------------- adapters
\* CheckConclusion and CheckStatus of the adapter contract
CheckConclusion ==
    { "Success", "Failure", "Neutral", "Cancelled", "Skipped", "TimedOut",
      "ActionRequired" }

Queued == [kind |-> "Queued", conclusion |-> "none", summary |-> << >>]
InProgress == [kind |-> "InProgress", conclusion |-> "none", summary |-> << >>]
Completed(conclusion, summary) ==
    [kind |-> "Completed", conclusion |-> conclusion, summary |-> summary]

\* the summaries and names of the check runs modelled
Summaries == { << "o", "k" >>, << "2", " ", "f", "a", "i", "l", "e", "d" >> }
CheckNames == { << "P", "r", "o", "o", "f", " ", "C", "h", "e", "c", "k" >>, << "l", "e", "a", "n" >> }

\* the check runs passed to create_check_run
CheckRuns ==
    [name : CheckNames, head_sha : { "c0" },
     details_url : { None, Some("https://ci/1") },
     status : { Queued, InProgress }
                 \cup { Completed(c, m) : c \in CheckConclusion, m \in Summaries }]

\* a timed-out check is reported as canceled
gitlab_conclusion_state_timeout(conclusion) ==
    CASE conclusion = "Success" -> "success"
      [] conclusion = "Failure" -> "failed"
      [] conclusion = "Neutral" -> "success"
      [] conclusion = "Cancelled" -> "canceled"
      [] conclusion = "Skipped" -> "success"
      [] conclusion = "TimedOut" -> "canceled"
      [] conclusion = "ActionRequired" -> "failed"

\* gitlab.rs:256-264  the commit-status state of a conclusion
gitlab_conclusion_state(conclusion) ==
    CASE conclusion = "Success" -> "success"
      [] conclusion = "Failure" -> "failed"
      [] conclusion = "Neutral" -> "success"
      [] conclusion = "Cancelled" -> "canceled"
      [] conclusion = "Skipped" -> "success"
      [] conclusion = "TimedOut" -> "failed"
      [] conclusion = "ActionRequired" -> "failed"

\* gitlab.rs:249-267  (state, description) of a CheckStatus
gitlab_state(status) ==
    CASE status.kind = "Queued" ->
            [state |-> "pending",
             description |-> Some("Proof verification queued")]
      [] status.kind = "InProgress" ->
            [state |-> "running",
             description |-> Some("Proof verification in progress")]
      [] status.kind = "Completed" ->
            [state |-> gitlab_conclusion_state(status.conclusion),
             description |-> Some(status.summary)]

\* a skipped check is reported as stopped
bitbucket_conclusion_state_skipped(conclusion) ==
    CASE conclusion = "Success" -> "SUCCESSFUL"
      [] conclusion = "Failure" -> "FAILED"
      [] conclusion = "Neutral" -> "SUCCESSFUL"
      [] conclusion = "Cancelled" -> "STOPPED"
      [] conclusion = "Skipped" -> "STOPPED"
      [] conclusion = "TimedOut" -> "FAILED"
      [] conclusion = "ActionRequired" -> "FAILED"

\* bitbucket.rs:293-301  the build-status state of a conclusion
bitbucket_conclusion_state(conclusion) ==
    CASE conclusion = "Success" -> "SUCCESSFUL"
      [] conclusion = "Failure" -> "FAILED"
      [] conclusion = "Neutral" -> "SUCCESSFUL"
      [] conclusion = "Cancelled" -> "STOPPED"
      [] conclusion = "Skipped" -> "SUCCESSFUL"
      [] conclusion = "TimedOut" -> "FAILED"
      [] conclusion = "ActionRequired" -> "FAILED"

\* bitbucket.rs:287-304  (state, description) of a CheckStatus
bitbucket_state(status) ==
    CASE status.kind = "Queued" ->
            [state |-> "INPROGRESS",
             description |-> Some("Proof verification queued")]
      [] status.kind = "InProgress" ->
            [state |-> "INPROGRESS",
             description |-> Some("Proof verification in progress")]
      [] status.kind = "Completed" ->
            [state |-> bitbucket_conclusion_state(status.conclusion),
             description |-> Some(status.summary)]

\* str::replace(' ', "-")
replace_space(str) == [i \in 1..Len(str) |-> IF str[i] = " " THEN "-" ELSE str[i]]

\* bitbucket.rs:307  format!("echidnabot-{}", name.replace(' ', "-").to_lowercase())
bitbucket_key(name) ==
    << "e", "c", "h", "i", "d", "n", "a", "b", "o", "t", "-" >> \o to_lowercase(replace_space(name))

\* the body posted to the platform and the CheckRunId returned, or the error
\* of the request
CheckRunResult(ok, body, id) == [ok |-> ok, body |-> body, id |-> id]

\* gitlab.rs:245-286  GitLabAdapter::create_check_run: the commit status is
\* posted and the id of the status GitLab created is returned as a string
GitlabCreateCheckRun ==
    \E check \in CheckRuns, status_id \in { 107 }, posted \in BOOLEAN :
        LET sd == gitlab_state(check.status)
            body == [state |-> sd.state, name |-> check.name,
                     description |-> sd.description,
                     target_url |-> check.details_url]
        IN  /\ event' = Returned(0, "create_check_run",
                                 [platform |-> "GitLab", check |-> check],
                                 IF posted
                                 THEN CheckRunResult(TRUE, body, code_digits(status_id))
                                 ELSE CheckRunResult(FALSE, body, << >>))
            /\ UNCHANGED << schedVars, taskVars, histVars, storeVars, wh, auxVars >>

\* bitbucket.rs:285-328  BitbucketAdapter::create_check_run: the build status
\* is posted under a key made from the name, and the key is returned
BitbucketCreateCheckRun ==
    \E check \in CheckRuns, posted \in BOOLEAN :
        LET sd == bitbucket_state(check.status)
            key == bitbucket_key(check.name)
            body == [state |-> sd.state, key |-> key, name |-> check.name,
                     description |-> sd.description, url |-> check.details_url]
        IN  /\ event' = Returned(0, "create_check_run",
                                 [platform |-> "Bitbucket", check |-> check],
                                 IF posted
                                 THEN CheckRunResult(TRUE, body, key)
                                 ELSE CheckRunResult(FALSE, body, << >>))
            /\ UNCHANGED << schedVars, taskVars, histVars, storeVars, wh, auxVars >>

\* how a `git` command ends: it cannot be spawned, it exits with a failure,
\* or it succeeds
GitOutcomes == { "spawn_err", "fail", "ok" }

\* what the platform and the host do during one clone_repo call: the API
\* request for the clone URL, the https link in Bitbucket's answer, the
\* temporary directory, and the three git commands; `tip` is the commit at
\* the head of the default branch
CloneEnvs ==
    [api_ok : BOOLEAN, https_link : BOOLEAN, tempdir_ok : BOOLEAN,
     clone : GitOutcomes, fetch : GitOutcomes, checkout : GitOutcomes,
     tip : { "c9" }]

\* Result<PathBuf>: the directory with the commit its working tree is at, or
\* the error
CloneOk(head) == [ok |-> TRUE, head |-> head, error |-> ""]
CloneErr(error) == [ok |-> FALSE, head |-> "", error |-> error]

\* gitlab.rs:187-243, bitbucket.rs:214-283  clone_repo(repo, commit): the
\* clone URL is asked for, the default branch is cloned with depth 1, and for
\* a commit other than HEAD the commit is fetched and, when the fetch
\* succeeded, checked out; the exit status of the checkout is not read
clone_repo(platform, commit, env) ==
    IF ~env.api_ok THEN CloneErr(platform)
    ELSE IF platform = "Bitbucket" /\ ~env.https_link
    THEN CloneErr("No HTTPS clone URL found")
    ELSE IF ~env.tempdir_ok THEN CloneErr("Io")
    ELSE IF env.clone = "spawn_err" THEN CloneErr("Io")
    ELSE IF env.clone = "fail" THEN CloneErr("Failed to clone")
    ELSE IF commit = "HEAD" THEN CloneOk(env.tip)
    ELSE IF env.fetch = "spawn_err" THEN CloneErr("Io")
    ELSE IF env.fetch = "fail" THEN CloneOk(env.tip)
    ELSE IF env.checkout = "spawn_err" THEN CloneErr("Io")
    ELSE IF env.checkout = "fail" THEN CloneOk(env.tip)
    ELSE CloneOk(commit)

\* an adapter is asked to clone acme/thm at HEAD or at a commit
CloneRepo ==
    \E platform \in { "GitLab", "Bitbucket" }, commit \in { "HEAD", "c0" },
       env \in CloneEnvs :
        /\ event' = Returned(0, "clone_repo",
                             [platform |-> platform, commit |-> commit,
                              env |-> env],
                             clone_repo(platform, commit, env))
        /\ UNCHANGED << schedVars, taskVars, histVars, storeVars, wh, auxVars >>

\* ------------------------------------------------------------------- modes
\* modes/mod.rs:17-35
BotMode == { "Verifier", "Advisor", "Consultant", "Regulator" }

\* modes/mod.rs:39-44
show_detailed_failures(mode) ==
    CASE mode = "Verifier" -> FALSE
      [] mode \in { "Advisor", "Consultant", "Regulator" } -> TRUE

\* modes/mod.rs:47-49
suggest_tactics(mode) == mode \in { "Advisor", "Consultant" }

\* the Advisor blocks merges too
blocks_merges_advisor(mode) == mode \in { "Regulator", "Advisor" }

\* modes/mod.rs:52-54
blocks_merges(mode) == mode \in { "Regulator" }

\* modes/mod.rs:62-69
check_run_severity(mode) ==
    CASE mode = "Verifier" -> "Notice"
      [] mode = "Advisor" -> "Warning"
      [] mode = "Consultant" -> "Warning"
      [] mode = "Regulator" -> "Error"

\* modes/mod.rs:151-180  the summary line, as the pieces format! joins
\* (the leading mark is written by its name)
format_summary(mode, success, prover) ==
    CASE mode = "Verifier" ->
            IF success THEN << "(check) Proof verified (", prover, ")" >>
            ELSE << "(cross) Proof failed (", prover, ")" >>
      [] mode = "Advisor" ->
            IF success THEN << "(check) Proof verified with ", prover >>
            ELSE << "(cross) Proof failed with ", prover,
                    " -- Suggestions available" >>
      [] mode = "Consultant" ->
            IF success
            THEN << "(check) Verified: ", prover, " completed successfully" >>
            ELSE << "(cross) Failed: ", prover, " -- Ask me for details" >>
      [] mode = "Regulator" ->
            IF success THEN << "(check) PASSED: ", prover, " verification" >>
            ELSE << "(no entry) BLOCKED: ", prover,
                    " verification failed -- Merge blocked" >>

\* modes/mod.rs:144-205  BotMode::format_result
format_result(mode, success, prover, output, suggestions) ==
    [summary |-> format_summary(mode, success, prover),
     details |-> IF show_detailed_failures(mode) /\ ~success
                 THEN Some(output) ELSE None,
     suggestions |-> IF suggest_tactics(mode) THEN suggestions ELSE << >>,
     should_block |-> blocks_merges(mode) /\ ~success,
     check_status |-> IF success THEN "Success" ELSE "Failure"]

\* the provers, outputs and suggestion lists the results are formatted for
FormatProvers == { "Coq", "Lean", "Agda" }
FormatOutputs == { "Proof complete", "Goal not discharged" }
FormatSuggestions ==
    { << >>, << "tactic1" >>,
      << "Try induction xs", "Consider rewrite app_assoc" >> }

\* a result is formatted for a mode
FormatResult ==
    \E mode \in BotMode, success \in BOOLEAN, prover \in FormatProvers,
       output \in FormatOutputs, suggestions \in FormatSuggestions :
        /\ event' = Returned(0, "format_result",
                             [mode |-> mode, success |-> success,
                              prover |-> prover, output |-> output,
                              suggestions |-> suggestions],
                             format_result(mode, success, prover, output,
                                           suggestions))
        /\ UNCHANGED << schedVars, taskVars, histVars, storeVars, wh, auxVars >>

\* the severity of the check runs of a mode is asked for
CheckRunSeverity ==
    \E mode \in BotMode :
        /\ event' = Returned(0, "check_run_severity", [mode |-> mode],
                             check_run_severity(mode))
        /\ UNCHANGED << schedVars, taskVars, histVars, storeVars, wh, auxVars >>

\* ---------------------------------------------------------------- specification
\* the scheduler under jobs of one commit, for both provers and with the
\* priorities of the webhook handlers
Next ==
    \E t \in Tasks :
        \/ Enqueue(t, {"c0"}, CallerPriorities)
        \/ TryStartNext(t)
        \/ TsnPop(t)
        \/ TsnPush(t)
        \/ CompleteJob(t)
        \/ CancelJob(t)

Spec == Init /\ [][Next]_vars

\* the scheduler under the jobs of pushes: two commits, both provers, all of
\* priority Normal, so that there are more triples than the queue has room for
NextPush ==
    \E t \in Tasks :
        \/ Enqueue(t, CommitShas, {Normal})
        \/ TryStartNext(t)
        \/ TsnPop(t)
        \/ TsnPush(t)
        \/ CompleteJob(t)
        \/ CancelJob(t)

SpecPush == Init /\ [][NextPush]_vars

\* the platform delivers ReplayEvent again and again while the scheduler
\* starts and completes jobs
NextReplay ==
    \E t \in Tasks :
        \/ GithubPushLookup(t, ReplayEvent)
        \/ GithubPushEnqueue(t)
        \/ GithubPushCreateJob(t)
        \/ TryStartNext(t)
        \/ TsnPop(t)
        \/ TsnPush(t)
        \/ CompleteJob(t)

SpecReplay == Init /\ [][NextReplay]_vars

\* one call of RetryPolicy::execute; the operation's future and the timer of
\* sleep complete, which is all the fairness the loop needs
NextRetry == RetryExecute \/ RetryOperation \/ RetrySleep

SpecRetry ==
    /\ Init
    /\ [][NextRetry]_vars
    /\ WF_vars(RetryOperation)
    /\ WF_vars(RetrySleep)

\* EchidnaClient::verify_proof retried by execute_auto under the replies of
\* the verifier
NextVerify == RetryExecuteAuto \/ VerifyProofOperation \/ RetrySleep

SpecVerify ==
    /\ Init
    /\ [][NextVerify]_vars
    /\ WF_vars(VerifyProofOperation)
    /\ WF_vars(RetrySleep)

\* registrations through GraphQL and the command line and changes of the
\* settings, by concurrent callers on an empty store
InitRegister == InitWith({}, NoConfig)

NextRegister ==
    \E t \in Tasks :
        \/ RegisterRepository(t)
        \/ RegisterCreate(t)
        \/ CliRegister(t)
        \/ CliRegisterCreate(t)
        \/ UpdateRepoSettings(t)
        \/ UpdateRepository(t)

SpecRegister == InitRegister /\ [][NextRegister]_vars

\* the three webhook endpoints under every configuration and repositories
\* table, serving one request after the other
InitWebhook == \E repos \in RepoTables, cfg \in Configs : InitWith(repos, cfg)

NextWebhook ==
    \E t \in { 1 } :
        \/ WebhookRequest(t, WebhookRequests)
        \/ WhEnqueue(t)
        \/ WhCreateJob(t)

SpecWebhook == InitWebhook /\ [][NextWebhook]_vars

\* manual triggers and the webhooks of every handler served one request at a
\* time by task 1, next to task 2, the worker that starts jobs
InitManual == InitWith(RepoTable(TRUE, TRUE, TRUE), NoConfig)

NextManual ==
    \/ \E t \in { 1 } :
            \/ TriggerCheck(t, TriggerArgs)
            \/ TcCreateJob(t)
            \/ TcAdditional(t)
            \/ WebhookRequest(t, HandlerRequests)
            \/ WhEnqueue(t)
            \/ WhCreateJob(t)
    \/ \E t \in { 2 } :
            \/ TryStartNext(t)
            \/ TsnPop(t)
            \/ TsnPush(t)

SpecManual == InitManual /\ [][NextManual]_vars

\* manual triggers, most of them of the registered repository, by concurrent
\* callers next to a worker that starts jobs
NextTrigger ==
    \/ \E t \in Tasks \ { 1 } :
            \/ TriggerCheck(t, TriggerArgs \cup TriggerCalls)
            \/ TcCreateJob(t)
            \/ TcAdditional(t)
    \/ \E t \in { 1 } :
            \/ TryStartNext(t)
            \/ TsnPop(t)
            \/ TsnPush(t)

SpecTrigger == InitManual /\ [][NextTrigger]_vars

\* one ContainerExecutor, its execute_proof calls one after the other, the
\* child process and the clock
NextExec ==
    \/ ExecutorNew
    \/ ExecuteProof
    \/ ExecCheckGvisor
    \/ ExecSpawn
    \/ ExecWriteStdin
    \/ ChildExit
    \/ ExecTick
    \/ ExecWaitReturns
    \/ ExecTimedOut

SpecExec == Init /\ [][NextExec]_vars

\* the GitLab and Bitbucket adapters reporting check runs
NextAdapters == GitlabCreateCheckRun \/ BitbucketCreateCheckRun

SpecAdapters == Init /\ [][NextAdapters]_vars

\* results formatted for the four bot modes
NextModes == FormatResult \/ CheckRunSeverity

SpecModes == Init /\ [][NextModes]_vars

\* the scheduler with its readers: one task enqueues, starts, completes and
\* cancels jobs while another calls get_job, jobs_for_repo and stats
NextLocks ==
    \/ \E t \in { 1 } :
          \/ Enqueue(t, {"c0"}, {Normal})
          \/ TryStartNext(t)
          \/ TsnPop(t)
          \/ TsnPush(t)
          \/ CompleteJob(t)
          \/ CancelJob(t)
    \/ \E t \in { 2 } :
          \/ GetJobRunning(t)
          \/ GetJobQueue(t)
          \/ JobsForRepoRunning(t)
          \/ JobsForRepoQueue(t)
          \/ StatsLockQueue(t)
          \/ StatsLockRunning(t)

\* a task that waits for a mutex takes it once it is free and stays free: the
\* runtime polls every task that is woken
LocksFairness ==
    \A t \in { 1, 2 } :
        /\ WF_vars(TsnPop(t))
        /\ WF_vars(TsnPush(t))
        /\ WF_vars(GetJobQueue(t))
        /\ WF_vars(JobsForRepoQueue(t))
        /\ WF_vars(StatsLockRunning(t))

SpecLocks == Init /\ [][NextLocks]_vars /\ LocksFairness

\* the scheduler drained: task 1 enqueues, cancels and completes jobs, task 2
\* is the worker that calls try_start_next again and again; every running
\* job is eventually passed to complete_job
NextDrain ==
    \/ \E t \in { 1 } :
          \/ Enqueue(t, {"c0"}, {Normal})
          \/ CancelJob(t)
          \/ CompleteJob(t)
    \/ \E t \in { 2 } :
          \/ TryStartNext(t)
          \/ TsnPop(t)
          \/ TsnPush(t)

DrainFairness ==
    /\ WF_vars(TryStartNext(2))
    /\ WF_vars(TsnPop(2))
    /\ WF_vars(TsnPush(2))
    /\ WF_vars(CompleteJob(1) /\ Len(running') < Len(running))

SpecDrain == Init /\ [][NextDrain]_vars /\ DrainFairness

\* task 1 triggers checks of the registered repositories and deletes
\* repository 1; task 2 is the worker that starts jobs
NextDelete ==
    \/ \E t \in { 1 } :
            \/ TriggerCheck(t, TriggerArgs)
            \/ TcCreateJob(t)
            \/ TcAdditional(t)
            \/ DeleteRepository(t)
    \/ \E t \in { 2 } :
            \/ TryStartNext(t)
            \/ TsnPop(t)
            \/ TsnPush(t)

SpecDelete == InitManual /\ [][NextDelete]_vars

\* errors of every kind put to is_transient_error
NextClassify == ClassifyError

SpecClassify == Init /\ [][NextClassify]_vars

\* the GitLab and Bitbucket adapters cloning a repository
NextClone == CloneRepo

SpecClone == Init /\ [][NextClone]_vars

\* ---------------------------------------------------------------- properties
Range(s) == { s[i] : i \in 1..Len(s) }

\* two jobs with the same (repo_id, commit_sha, prover)
SameTriple(a, b) ==
    a.repo_id = b.repo_id /\ a.commit_sha = b.commit_sha /\ a.prover = b.prover

\* some queued job has the triple of job
QueuedTwin(q, job) == \E j \in Range(q) : SameTriple(j, job)

\* the rank of an accepted job in the order of acceptance
AcceptIndex(id) == CHOOSE k \in 1..Len(accepted) : accepted[k] = id

RECURSIVE SumOver(_, _)
SumOver(f, S) ==
    IF S = {} THEN 0
    ELSE LET x == CHOOSE y \in S : TRUE IN f[x] + SumOver(f, S \ {x})

CancelledCount == Cardinality({ id \in JobIds : life[id] = "Cancelled" })

\* C1: active_count and the number of running jobs never exceed
\* max_concurrent, whatever the interleaving of try_start_next, enqueue and
\* complete_job
C1_ActiveWithinMaxConcurrent ==
    /\ active_count <= max_concurrent
    /\ Len(running) <= max_concurrent

\* C2: no two queued jobs share (repo_id, commit_sha, prover), and an enqueue
\* of a job whose triple is that of a queued job returns None and leaves the
\* queue as it was
C2_NoDuplicateQueued ==
    /\ [](\A i, k \in 1..Len(queue) : i # k => ~SameTriple(queue[i], queue[k]))
    /\ [][event'.op = "enqueue" /\ QueuedTwin(queue, event'.arg)
            => event'.ret = None /\ queue' = queue]_vars

\* C2 happens: an enqueue was rejected although the queue has room, because a
\* queued job has the same triple
C2_Witness ==
    /\ event.op = "enqueue"
    /\ event.ret = None
    /\ Len(queue) < max_queue_size
    /\ QueuedTwin(queue, event.arg)

\* C3: the queue is ordered by non-increasing priority, and the job
\* try_start_next pops has a priority no queued job exceeds
C3_PriorityOrder ==
    /\ \A i, k \in 1..Len(queue) : i < k => queue[i].priority >= queue[k].priority
    /\ \A t \in Tasks : pc[t] = "tsn_lock_running" =>
          \A j \in Range(queue) : j.priority <= cur[t].priority

\* C3 happens: try_start_next has popped a job while a job of lower priority
\* that was accepted earlier stays queued
C3_Witness ==
    \E t \in Tasks :
        /\ pc[t] = "tsn_lock_running"
        /\ \E j \in Range(queue) :
              /\ j.priority < cur[t].priority
              /\ AcceptIndex(j.id) < AcceptIndex(cur[t].id)

\* C4: queued jobs of one priority stand in the order of their acceptance,
\* and the job try_start_next pops was accepted before every queued job of
\* its priority
C4_FifoWithinPriority ==
    /\ \A i, k \in 1..Len(queue) :
          i < k /\ queue[i].priority = queue[k].priority
             => AcceptIndex(queue[i].id) < AcceptIndex(queue[k].id)
    /\ \A t \in Tasks : pc[t] = "tsn_lock_running" =>
          \A j \in Range(queue) :
             j.priority = cur[t].priority
                => AcceptIndex(cur[t].id) < AcceptIndex(j.id)

\* C4 happens: try_start_next has popped a job, a job of the same priority
\* stays queued, and another job was accepted between the two
C4_Witness ==
    \E t \in Tasks :
        /\ pc[t] = "tsn_lock_running"
        /\ \E j \in Range(queue) :
              /\ j.priority = cur[t].priority
              /\ AcceptIndex(j.id) > AcceptIndex(cur[t].id) + 1

\* C5: whenever no try_start_next is between its pop and its push (the queue
\* mutex is free), len(queue) + len(running) is the number of accepted
\* enqueues minus the completions of running jobs minus the successful
\* cancellations
C5_Conservation ==
    queue_lock = NoTask =>
        Len(queue) + Len(running)
            = Len(accepted) - SumOver(decrements, JobIds) - CancelledCount

\* C5 happens: jobs were accepted, one was completed, one was cancelled and
\* one is still held
C5_Witness ==
    /\ queue_lock = NoTask
    /\ SumOver(decrements, JobIds) >= 1
    /\ CancelledCount >= 1
    /\ Len(queue) + Len(running) >= 1

\* every job the scheduler or the store holds
HeldOrStored ==
    Range(queue) \cup Range(running) \cup store_jobs
        \cup { cur[t] : t \in { u \in Tasks : cur[u] # NoJob } }

\* C6: replaying one webhook event creates at most one job per
\* (repo, commit, prover), counting the jobs the scheduler accepted and the
\* jobs passed to store.create_job
C6_ReplayCreatesOneJob ==
    \A a, b \in HeldOrStored : SameTriple(a, b) => a.id = b.id

\* C7: cancel_job returns true exactly when the id is queued and then removes
\* that job only; otherwise the queue is unchanged; it never touches the
\* running set or active_count, and no job goes from Running to Cancelled
C7_CancelQueuedOnly ==
    /\ [][event'.op = "cancel_job" =>
            /\ event'.ret = (\E j \in Range(queue) : j.id = event'.arg.id)
            /\ queue' = SelectSeq(queue, LAMBDA j : j.id # event'.arg.id)
            /\ running' = running
            /\ active_count' = active_count]_vars
    /\ [][\A id \in JobIds : life[id] = "Running" => life'[id] # "Cancelled"]_vars

\* C7 happens: cancel_job has returned false for a running job, after another
\* job was cancelled in the queue
C7_Witness ==
    /\ event.op = "cancel_job"
    /\ event.ret = FALSE
    /\ \E j \in Range(running) : j.id = event.arg.id
    /\ CancelledCount >= 1

LifecycleSteps ==
    { << "none", "Queued" >>, << "Queued", "Running" >>,
      << "Queued", "Cancelled" >>, << "Running", "Completed" >>,
      << "Running", "Failed" >> }

\* C8: a job goes Queued -> Running -> Completed | Failed or
\* Queued -> Cancelled; try_start_next returns an id at most once;
\* complete_job decrements for an id at most once and only after it was
\* started; complete_job for an id that is not running changes nothing
C8_Lifecycle ==
    /\ [][\A id \in JobIds :
            life'[id] # life[id] => << life[id], life'[id] >> \in LifecycleSteps]_vars
    /\ [](\A id \in JobIds :
            /\ starts[id] <= 1
            /\ decrements[id] <= starts[id])
    /\ [][event'.op = "complete_job"
            /\ ~(\E j \in Range(running) : j.id = event'.arg.id)
            => UNCHANGED << queue, running, active_count, life, decrements >>]_vars

\* C8 happens: complete_job was called for a job that was started and
\* completed before, and another job is running
C8_Witness ==
    /\ event.op = "complete_job"
    /\ starts[event.arg.id] = 1
    /\ decrements[event.arg.id] = 1
    /\ life[event.arg.id] \in { "Completed", "Failed" }
    /\ running # << >>

\* C9: the queue never holds more than max_queue_size jobs; enqueue on a full
\* queue returns None and leaves the queue as it was; enqueue returns
\* Ok(None) or Ok(Some(id)), never an error
C9_QueueBounded ==
    /\ [](Len(queue) <= max_queue_size)
    /\ [][event'.op = "enqueue" /\ Len(queue) >= max_queue_size
            => event'.ret = None /\ queue' = queue]_vars
    /\ [][event'.op = "enqueue"
            => event'.ret \in { None, Some(event'.arg.id) }]_vars

\* C9 happens: an enqueue was rejected by a full queue that holds no job of
\* its triple
C9_Witness ==
    /\ event.op = "enqueue"
    /\ event.ret = None
    /\ Len(queue) = max_queue_size
    /\ ~QueuedTwin(queue, event.arg)

\* C10: only queued jobs count as duplicates: an enqueue is accepted whenever
\* the queue is not full and no queued job has the triple, whether or not a
\* job of that triple is running or has completed
C10_DuplicateCheckQueuedOnly ==
    [][event'.op = "enqueue" /\ Len(queue) < max_queue_size
         /\ ~QueuedTwin(queue, event'.arg)
         => /\ event'.ret = Some(event'.arg.id)
            /\ event'.arg \in Range(queue')]_vars

\* C10 happens: an enqueue was accepted while a job of the same triple is
\* running
C10_Witness ==
    /\ event.op = "enqueue"
    /\ event.ret # None
    /\ \E j \in Range(running) : SameTriple(j, event.arg)
\* the outcomes of the invocations made so far that failed retryably
RetryableFailure(out) == ~out.ok /\ out.retryable

RetryDone == retry.pc = "done"

\* C18: execute invokes the operation at most max_retries + 1 times and
\* always returns; it returns Ok after exactly k invocations when the k-th is
\* the first success and the earlier ones failed retryably; it makes exactly
\* max_retries + 1 invocations when all fail retryably, exactly one when
\* max_retries = 0, and none after it has returned
C18_RetryAttemptsBounded ==
    /\ [](retry.pc # "none" => Len(retry.log) <= retry.cfg.max_retries + 1)
    /\ (retry.pc # "none") ~> RetryDone
    /\ [](RetryDone /\ retry.result.ok =>
            /\ retry.log[Len(retry.log)].ok
            /\ \A i \in 1..(Len(retry.log) - 1) : RetryableFailure(retry.log[i]))
    /\ [](RetryDone /\ (\A i \in 1..Len(retry.log) : RetryableFailure(retry.log[i]))
            => Len(retry.log) = retry.cfg.max_retries + 1)
    /\ [](RetryDone /\ retry.cfg.max_retries = 0 => Len(retry.log) = 1)
    /\ [][RetryDone => retry' = retry]_vars

\* C18 happens: with a budget of at least two retries every invocation has
\* failed retryably and execute has returned
C18_Witness ==
    /\ RetryDone
    /\ retry.cfg.max_retries >= 2
    /\ Len(retry.log) = retry.cfg.max_retries + 1
    /\ \A i \in 1..Len(retry.log) : RetryableFailure(retry.log[i])

\* C19: an invocation that fails with a non-retryable error ends execute at
\* once with that error: no sleep follows and the operation is not invoked
\* again
C19_NonRetryableReturnsAtOnce ==
    /\ [][retry.pc # "none" /\ Len(retry'.log) = Len(retry.log) + 1
            /\ ~retry'.log[Len(retry'.log)].ok
            /\ ~retry'.log[Len(retry'.log)].retryable
            => /\ retry'.pc = "done"
               /\ retry'.result = [ok |-> FALSE,
                                   error |-> retry'.log[Len(retry'.log)]]
               /\ retry'.sleeps = retry.sleeps]_vars
    /\ [](retry.pc # "none" =>
            \A i \in 1..(Len(retry.log) - 1) : retry.log[i].retryable)
    /\ [](retry.pc = "sleep" => retry.log[Len(retry.log)].retryable)

\* C19 happens: execute has returned a non-retryable error of its second
\* invocation although retries were left
C19_Witness ==
    /\ RetryDone
    /\ ~retry.result.ok
    /\ ~retry.result.error.retryable
    /\ Len(retry.log) = 2
    /\ retry.attempt < retry.cfg.max_retries
    /\ Len(retry.sleeps) = 1

\* C20: the error execute returns is the error of the last invocation
C20_LastErrorReturned ==
    RetryDone /\ ~retry.result.ok =>
        /\ retry.result.error = retry.log[Len(retry.log)]
        /\ retry.result.error.invocation = Len(retry.log)

\* C20 happens: the retries are used up after several failed invocations and
\* an error is returned
C20_Witness ==
    /\ RetryDone
    /\ ~retry.result.ok
    /\ retry.result.error.retryable
    /\ Len(retry.log) = retry.cfg.max_retries + 1
    /\ Len(retry.log) >= 3
RECURSIVE Pow(_, _)
Pow(b, k) == IF k = 0 THEN 1 ELSE b * Pow(b, k - 1)

\* C21: inside execute the backoff before the k-th retry (k sleeps are over)
\* is min(initial_backoff * multiplier^k, max_backoff), it never exceeds
\* max_backoff and never decreases; the delay of a sleep is the backoff
\* without jitter and lies between half the backoff and the backoff with it
C21_BackoffFormula ==
    /\ [](retry.pc \in { "operation", "sleep" } =>
            /\ retry.backoff =
                  Min(retry.cfg.initial_backoff
                         * Pow(retry.cfg.multiplier, Len(retry.sleeps)),
                      retry.cfg.max_backoff)
            /\ retry.backoff <= retry.cfg.max_backoff)
    /\ [](retry.pc = "sleep" =>
            IF retry.cfg.jitter
            THEN 2 * retry.delay >= retry.backoff - 1 /\ retry.delay <= retry.backoff
            ELSE retry.delay = retry.backoff)
    /\ [][retry.pc # "none" /\ retry'.pc # "none" => retry'.backoff >= retry.backoff]_vars

\* the failures of the verifier the specification calls transient: no
\* connection, a 5xx status, a rate-limit response (status 429 or a GraphQL
\* error saying so); and the one it calls terminal: a body that does not decode
SpecTransient(reply) ==
    \/ ~reply.sent
    \/ reply.sent /\ reply.status \in 500..599
    \/ reply.sent /\ reply.status = 429
    \/ reply.sent /\ is_success(reply.status) /\ reply.decodes
          /\ reply.errors = Some(<< RateLimitExceeded >>)

SpecMalformed(reply) == reply.sent /\ is_success(reply.status) /\ ~reply.decodes

\* the last invocation of verify_proof inside execute_auto
LastCall == retry.log[Len(retry.log)]

\* C22: after a network failure, a 5xx response or a rate-limit response of
\* the verifier execute_auto retries (while retries are left), and after an
\* undecodable response it returns the error at once
C22_VerifierFailureClasses ==
    retry.pc \in { "sleep", "done" } /\ retry.op = "verify_proof"
        /\ retry.attempt <= retry.cfg.max_retries
       => /\ SpecTransient(LastCall.reply) => retry.pc = "sleep"
          /\ SpecMalformed(LastCall.reply) => retry.pc = "done"

\* the command line passes the checks of `register` before the lookup
CliParsed(args) ==
    /\ Len(split(args.repo, "/")) = 2
    /\ parse_platform(args.platform) # None
    /\ filter_map_provers(split_char(args.provers, ",")) # << >>

\* a registration call (mutation or command) that got as far as the store
Registration(e) ==
    \/ e.op = "register_repository"
    \/ e.op = "register" /\ CliParsed(e.arg)

\* the rows with the natural key a registration call names
RowsOfCall(e) ==
    IF e.op = "register_repository"
    THEN { r \in store_repos :
             r.platform = e.arg.platform /\ r.owner = e.arg.owner
                /\ r.name = e.arg.name }
    ELSE { r \in store_repos :
             /\ r.platform = parse_platform(e.arg.platform)[1]
             /\ r.owner = split(e.arg.repo, "/")[1]
             /\ r.name = split(e.arg.repo, "/")[2] }

\* the provers a registration call asks for
ProversOfCall(e) ==
    IF e.op = "register_repository"
    THEN unwrap_or(e.arg.enabled_provers, << "Metamath" >>)
    ELSE filter_map_provers(split_char(e.arg.provers, ","))

\* C23: no two rows share (platform, owner, name), under any interleaving of
\* registrations; and a registration that returns when a row with its key
\* exists returns that row, not an error (storage outages apart) and not a
\* new row
C23_RegisterIdempotent ==
    /\ [](\A a, b \in store_repos :
            a.platform = b.platform /\ a.owner = b.owner /\ a.name = b.name
               => a = b)
    /\ [][Registration(event') /\ ~event'.ret.outage /\ RowsOfCall(event') # {}
            => /\ event'.ret.ok
               /\ event'.ret.repo \in RowsOfCall(event')
               /\ store_repos' = store_repos]_vars

\* C24: every row has a non-empty enabled_provers, and a registration with
\* an empty prover list creates no row and returns an error, unless it
\* returns a repository that was registered before
C24_ProversNonEmpty ==
    /\ [](\A r \in store_repos : r.enabled_provers # << >>)
    /\ [][(event'.op = "register_repository"
             \/ (event'.op = "register" /\ Len(split(event'.arg.repo, "/")) = 2
                   /\ parse_platform(event'.arg.platform) # None))
            /\ ProversOfCall(event') = << >>
            => /\ store_repos' = store_repos
               /\ event'.ret.ok => event'.ret.repo \in store_repos]_vars

\* the provers a trigger_check call is for: those given, or the enabled
\* provers of the repository
RequestedProvers(args) ==
    IF args.provers # None THEN args.provers[1]
    ELSE get_repository(args.repo_id[1])[1].enabled_provers

C26_TimeoutIsNormalResult ==
    [][event'.op = "execute_proof" /\ exec.pc = "wait" =>
         IF exec.child = "running"
         THEN /\ event'.ret.ok
              /\ event'.ret.timed_out
              /\ ~event'.ret.success
              /\ event'.ret.exit_code = None
              /\ event'.ret.duration_ms >= exec.timeout
              /\ exec'.child = "killed"
         ELSE ~event'.ret.timed_out]_vars

\* C26 happens: the second call of an executor has timed out
C26_Witness ==
    /\ event.op = "execute_proof"
    /\ event.ret.timed_out
    /\ exec.calls = 2
    /\ exec.child = "killed"

\* C27: an executor with the Maximum profile runs check_gvisor at most once,
\* whatever the number of execute_proof calls and whatever the detection found
C27_DetectionOnce ==
    exec.pc # "none" /\ exec.profile = "Maximum" => exec.detections <= 1

\* the state an adapter posted for a check run, and the states its platform
\* has for success and for failure
PostedState == event.ret.body.state
SuccessState == IF event.arg.platform = "GitLab" THEN "success" ELSE "SUCCESSFUL"
FailureState == IF event.arg.platform = "GitLab" THEN "failed" ELSE "FAILED"
PlatformStates ==
    IF event.arg.platform = "GitLab"
    THEN { "pending", "running", "success", "failed", "canceled" }
    ELSE { "INPROGRESS", "SUCCESSFUL", "FAILED", "STOPPED" }

\* C28: on GitLab and Bitbucket every CheckStatus is posted with a state of
\* the platform; Success, Neutral and Skipped are posted with the success
\* state, Failure, TimedOut and ActionRequired with the failure state, and
\* Cancelled with a state that is neither
C28_StatusMappingTotal ==
    event.op = "create_check_run" =>
        LET status == event.arg.check.status
        IN  /\ PostedState \in PlatformStates
            /\ status.kind = "Completed" =>
                  /\ status.conclusion \in { "Success", "Neutral", "Skipped" }
                        => PostedState = SuccessState
                  /\ status.conclusion \in { "Failure", "TimedOut", "ActionRequired" }
                        => PostedState = FailureState
                  /\ status.conclusion = "Cancelled"
                        => PostedState \notin { SuccessState, FailureState }

\* C28 happens: a timed-out check has been posted to GitLab
C28_Witness ==
    /\ event.op = "create_check_run"
    /\ event.arg.platform = "GitLab"
    /\ event.arg.check.status.kind = "Completed"
    /\ event.arg.check.status.conclusion = "TimedOut"
    /\ event.ret.ok

\* C29: format_result sets should_block exactly when the mode is Regulator
\* and the proof failed, keeps the tactic suggestions in Advisor and
\* Consultant modes and drops them in the others, and has details exactly
\* for a failure in a mode other than Verifier; Regulator is the only mode
\* whose check runs have Error severity
C29_FormatResultByMode ==
    /\ event.op = "format_result" =>
          LET mode == event.arg.mode
              failed == ~event.arg.success
          IN  /\ event.ret.should_block <=> (mode = "Regulator" /\ failed)
              /\ event.ret.suggestions =
                    IF mode \in { "Advisor", "Consultant" }
                    THEN event.arg.suggestions ELSE << >>
              /\ event.ret.details =
                    IF failed /\ mode # "Verifier"
                    THEN Some(event.arg.output) ELSE None
    /\ event.op = "check_run_severity" =>
          (event.ret = "Error" <=> event.arg.mode = "Regulator")

\* C29 happens: a failure has been formatted in Regulator mode, with
\* suggestions passed in
C29_Witness ==
    /\ event.op = "format_result"
    /\ event.arg.mode = "Regulator"
    /\ ~event.arg.success
    /\ event.arg.suggestions # << >>
    /\ event.ret.should_block

\* C30: every step that changes active_count (the fetch_add of
\* try_start_next, the fetch_sub of complete_job) is made with the queue
\* mutex held
C30_MutationsUnderQueueMutex ==
    [][active_count' # active_count => queue_lock' # NoTask]_vars

\* C31: whenever neither the queue mutex nor the running mutex is held,
\* active_count is the number of jobs in the running set, so has_capacity
\* and the capacity test of try_start_next answer for the running set; and
\* active_count never wraps below zero
C31_ActiveCountIsRunningLen ==
    /\ (queue_lock = NoTask /\ running_lock = NoTask) =>
          /\ active_count = Len(running)
          /\ has_capacity <=> Len(running) < max_concurrent
          /\ at_capacity(active_count) <=> Len(running) >= max_concurrent
    /\ active_count # UsizeWrapped

\* C31 happens: with both mutexes free a job is running after another was
\* completed
C31_Witness ==
    /\ queue_lock = NoTask
    /\ running_lock = NoTask
    /\ Len(running) >= 1
    /\ SumOver(decrements, JobIds) >= 1

\* the mutex a task is waiting for at its lock().await, "none" when it is
\* not waiting
WaitsFor(t) ==
    CASE pc[t] \in { "tsn_lock_queue", "get_job_queue", "jobs_for_repo_queue" }
            -> "queue"
      [] pc[t] = "tsn_lock_running" -> "running"
      [] pc[t] = "stats_lock_running" -> stats_lock_order[2]
      [] OTHER -> "none"

\* no task waits for the queue mutex while it holds the running mutex
QueueBeforeRunning ==
    \A t \in Tasks : WaitsFor(t) = "queue" => running_lock # t

\* when some call is in progress, a task in a call can take its next step
SomeCallProceeds ==
    (\E t \in Tasks : pc[t] # "idle")
        => \E t \in Tasks : WaitsFor(t) # "none" /\ lock_free(WaitsFor(t))

\* C32: concurrent enqueue, try_start_next, complete_job, cancel_job,
\* get_job, jobs_for_repo and stats calls never deadlock: a task that holds
\* one scheduler mutex and takes the other holds the queue mutex and takes
\* the running mutex, some call in progress can always go on, and a task
\* that took a mutex eventually releases it
C32_NoDeadlock ==
    /\ [](QueueBeforeRunning /\ SomeCallProceeds)
    /\ \A t \in { 1, 2 } : (queue_lock = t ~> queue_lock # t)
    /\ \A t \in { 1, 2 } : (running_lock = t ~> running_lock # t)

\* C32 happens: stats holds the queue mutex and waits for the running mutex
\* while a try_start_next waits for the queue mutex to pop a queued job
C32_Witness ==
    \E t, u \in Tasks :
        /\ t # u
        /\ pc[t] = "stats_lock_running"
        /\ queue_lock = t
        /\ pc[u] = "tsn_lock_queue"
        /\ Len(queue) >= 1

\* C33: get_job(id) returns the job whenever the scheduler holds it, in the
\* queue or in the running set, from the beginning of the call to its end,
\* also when a concurrent try_start_next moves it from the queue to the
\* running set
C33_GetJobFindsHeldJob ==
    [][event'.op = "get_job" /\ event'.arg.held /\ Held(event'.arg.id)
          => event'.ret # None /\ event'.ret[1].id = event'.arg.id]_vars

\* C34: once the webhook handlers and trigger_check calls have returned,
\* every job the scheduler holds has a record in the store: a job whose
\* create_job failed is not left in the scheduler
C34_HeldJobsAreStored ==
    (\A t \in Tasks : wh[t] = NoHandler) =>
        \A j \in Range(queue) \cup Range(running) :
            \E s \in store_jobs : s.id = j.id

\* the queue holds the job with this id
InQueue(id) == \E i \in 1..Len(queue) : queue[i].id = id

\* C35: when enqueues come to an end, every running job is eventually
\* completed and try_start_next is called again and again, every queued job
\* eventually leaves the queue (started or cancelled) and the queue ends up
\* empty for good
C35_QueueDrains ==
    /\ \A id \in JobIds : InQueue(id) ~> ~InQueue(id)
    /\ <>[](queue = << >>)

\* C35 happens: the queue is empty after every job was built, two were
\* accepted and one of them was started
C35_Witness ==
    /\ queue = << >>
    /\ nextId > MaxJobs
    /\ Len(accepted) >= 2
    /\ \E id \in JobIds : starts[id] >= 1

\* C36: once delete_repository has deleted a repository, the scheduler
\* holds no queued job of it and try_start_next returns no job of it
C36_DeletedRepoHasNoJobs ==
    /\ [](get_repository(1) = None =>
            \A i \in 1..Len(queue) : queue[i].repo_id # 1)
    /\ [][event'.op = "try_start_next" /\ event'.ret # None
            => \E r \in store_repos' : r.id = event'.ret[1].repo_id]_vars

\* ---------------------------------------------------------------- webhook properties
\* the webhook secret configured for the platform of the request, if any
ConfiguredSecret(req) ==
    LET section == IF req.platform = "GitHub" THEN config.github
                   ELSE IF req.platform = "GitLab" THEN config.gitlab
                   ELSE None
    IN  IF section = None THEN None ELSE section[1].webhook_secret

\* X-Hub-Signature-256 is sha256=<hex of the HMAC-SHA256 of the body under key>
SignedUnder(req, key) ==
    req.headers.signature
        = Some([prefix |-> "sha256=", hex |-> TRUE,
                bytes |-> [key |-> key, body |-> req.body.name]])

\* the request carries what the configured secret demands
AuthOk(req) ==
    \/ ConfiguredSecret(req) = None
    \/ req.platform = "GitHub" /\ SignedUnder(req, ConfiguredSecret(req)[1])
    \/ req.platform = "GitLab" /\ req.headers.token = ConfiguredSecret(req)

\* the class of the event named by the platform's event header, and the
\* schema its payload must have
EventClass(req) ==
    LET e == req.headers.event
    IN  CASE req.platform = "GitHub" /\ e = Some("push") -> "push"
          [] req.platform = "GitHub" /\ e = Some("pull_request") -> "pr"
          [] req.platform = "GitHub" /\ e = Some("check_suite") -> "suite"
          [] req.platform = "GitHub" /\ e = Some("ping") -> "ping"
          [] req.platform = "GitLab" /\ e = Some("Push Hook") -> "push"
          [] req.platform = "GitLab" /\ e = Some("Merge Request Hook") -> "pr"
          [] req.platform = "Bitbucket" /\ e = Some("repo:push") -> "push"
          [] req.platform = "Bitbucket"
               /\ e \in { Some("pullrequest:created"), Some("pullrequest:updated") }
               -> "pr"
          [] OTHER -> "unknown"

EventSchema(req) ==
    CASE req.platform = "GitHub" /\ EventClass(req) = "push" -> "GitHubPushEvent"
      [] req.platform = "GitHub" /\ EventClass(req) = "pr" -> "GitHubPullRequestEvent"
      [] req.platform = "GitHub" /\ EventClass(req) = "suite" -> "GitHubCheckSuiteEvent"
      [] req.platform = "GitLab" /\ EventClass(req) = "push" -> "GitLabPushEvent"
      [] req.platform = "GitLab" /\ EventClass(req) = "pr" -> "GitLabMergeRequestEvent"
      [] req.platform = "Bitbucket" /\ EventClass(req) = "push" -> "BitbucketPushEvent"
      [] req.platform = "Bitbucket" /\ EventClass(req) = "pr"
           -> "BitbucketPullRequestEvent"
      [] OTHER -> "any"

\* the payload is well-formed for the event of the request
WellFormed(req) == EventSchema(req) \in { "any", req.body.shape }

\* a well-formed push, pull-request or merge-request event
PushOrPr(req) == EventClass(req) \in { "push", "pr" } /\ WellFormed(req)

\* the rows of the repositories table for the repository the event names:
\* owner and name on GitHub, the first and last segment of the path on
\* GitLab, owner/name on Bitbucket
NamedRepo(req) ==
    LET ev == req.body.event
        path == IF req.platform = "GitLab" THEN ev.path_with_namespace
                ELSE IF req.platform = "Bitbucket" THEN ev.full_name
                ELSE << ev.owner, "/", ev.name >>
    IN  { r \in store_repos : /\ r.platform = req.platform
                              /\ r.owner = path[1]
                              /\ r.name = path[Len(path)]
                              /\ Len(path) >= 3 }

\* the repository of the event is registered, enabled and has the flag of
\* the event's class
Watched(req) ==
    \E r \in NamedRepo(req) :
        /\ r.enabled
        /\ EventClass(req) = "push" => r.check_on_push
        /\ EventClass(req) = "pr" => r.check_on_pr

\* a pull-request or merge-request event whose action is outside the
\* accepted set
PrActionIgnored(req) ==
    /\ EventClass(req) = "pr"
    /\ WellFormed(req)
    /\ \/ /\ req.platform = "GitHub"
          /\ req.body.event.action \notin { "opened", "synchronize", "reopened" }
       \/ /\ req.platform = "GitLab"
          /\ req.body.event.object_attributes.action
                \notin { Some("open"), Some("update"), Some("reopen") }
          /\ req.body.event.object_attributes.state # "opened"

\* the request made no scheduler or store-job call
NoJobCalls(ret) == ret.enqueued = << >> /\ ret.created = << >>

\* C11: under a configured secret, a GitHub request whose X-Hub-Signature-256
\* is missing, malformed or not the HMAC-SHA256 of the body under the secret,
\* and a GitLab request whose X-Gitlab-Token is not the secret, is answered
\* 401 whatever its event type and payload, with no store call and no change
\* of the scheduler or the store; a request with the valid signature or
\* token is not answered 401
C11_BadSignatureRejected ==
    [][event'.op = "webhook" =>
         IF AuthOk(event'.arg)
         THEN event'.ret.status # 401
         ELSE /\ event'.ret.status = 401
              /\ event'.ret.store_calls = 0
              /\ NoJobCalls(event'.ret)
              /\ UNCHANGED << schedVars, storeVars, histVars >>]_vars

\* C11 happens: under a configured secret a GitHub push signed with another
\* key was answered 401 while jobs are queued
C11_Witness ==
    /\ event.op = "webhook"
    /\ event.arg.platform = "GitHub"
    /\ config.github # None
    /\ SignedUnder(event.arg, "repo-secret")
    /\ event.ret.status = 401
    /\ queue # << >>

\* C12: a GitHub event for a registered repository that has a webhook_secret
\* leads to an enqueue only if it is signed under that repository's secret
C12_RepoSecretAuthenticates ==
    event.op = "webhook" /\ event.arg.platform = "GitHub"
        /\ event.ret.enqueued # << >>
        => \A r \in NamedRepo(event.arg) :
              r.webhook_secret # None
                 => SignedUnder(event.arg, r.webhook_secret[1])

\* C13: a well-formed push or pull/merge-request event for a repository that
\* is not registered, is disabled or has the flag of the event off makes no
\* enqueue and no create_job, leaves queue and store as they are, and is
\* answered 200 (unless the lookup itself failed)
C13_UnwatchedRepoIgnored ==
    [][event'.op = "webhook" /\ AuthOk(event'.arg) /\ PushOrPr(event'.arg)
         /\ ~Watched(event'.arg)
         => /\ ~event'.ret.store_failed => event'.ret.status = 200
            /\ NoJobCalls(event'.ret)
            /\ UNCHANGED << schedVars, storeVars >>]_vars

\* C13 happens: a well-formed push for a registered and enabled repository
\* with check_on_push off was looked up and answered 200 while jobs of pull
\* requests are queued
C13_Witness ==
    /\ event.op = "webhook"
    /\ EventClass(event.arg) = "push"
    /\ WellFormed(event.arg)
    /\ \E r \in NamedRepo(event.arg) : r.enabled /\ ~r.check_on_push
    /\ event.ret.status = 200
    /\ event.ret.store_calls = 1
    /\ queue # << >>

\* the added and modified files of the commits of a push payload; a
\* Bitbucket push payload names no files
PushedFiles(req) ==
    IF req.platform = "Bitbucket" THEN << >>
    ELSE flat_map_files(req.body.event.commits)

\* the file has an extension of the prover
HasExtensionOf(file, prover) ==
    \E ext \in file_extensions(prover) :
        /\ Len(ext) <= Len(file)
        /\ \A k \in 1..Len(ext) :
              to_lowercase_char(file[Len(file) - Len(ext) + k]) = ext[k]

\* C14: every job of a push event, on any platform, is for a prover with at
\* least one matching file among the added and modified files, and its
\* file_paths is the list of those files
C14_PushJobsMatchFiles ==
    event.op = "webhook" /\ EventClass(event.arg) = "push" /\ WellFormed(event.arg)
        => \A j \in Range(event.ret.enqueued) :
              /\ j.file_paths # << >>
              /\ j.file_paths
                    = SelectSeq(PushedFiles(event.arg),
                                LAMBDA f : HasExtensionOf(f, j.prover))

\* the status the order of C16 gives a request, given whether a store or
\* scheduler call of its handling failed
ExpectedStatus(req, call_failed) ==
    IF ~AuthOk(req) THEN 401
    ELSE IF EventClass(req) = "unknown" THEN 200
    ELSE IF ~WellFormed(req) /\ EventClass(req) \in { "push", "pr", "suite" } THEN 400
    ELSE IF call_failed THEN 500
    ELSE 200

\* C16: the status of a webhook request is 401 if authentication fails, else
\* 200 if the event type is not recognised, else 400 if the payload of a
\* push, pull/merge-request or check-suite event does not parse, else 500 if
\* a store or scheduler call fails, else 200
C16_StatusOrder ==
    [][event'.op = "webhook" =>
         event'.ret.status = ExpectedStatus(event'.arg, event'.ret.store_failed)]_vars

\* C16 happens: store.create_job failed for an accepted job and the request
\* was answered 500
C16_Witness ==
    /\ event.op = "webhook"
    /\ event.ret.status = 500
    /\ event.ret.store_failed
    /\ event.ret.created # << >>
    /\ ConfiguredSecret(event.arg) # None

\* C17: an authenticated request with an unknown event type, or with a
\* pull/merge-request event whose action is not accepted, is answered 200,
\* makes no store or scheduler call and leaves scheduler and store unchanged
C17_IgnoredEventsLeaveNoTrace ==
    [][event'.op = "webhook" /\ AuthOk(event'.arg)
         /\ (EventClass(event'.arg) = "unknown" \/ PrActionIgnored(event'.arg))
         => /\ event'.ret.status = 200
            /\ event'.ret.store_calls = 0
            /\ NoJobCalls(event'.ret)
            /\ UNCHANGED << schedVars, storeVars >>]_vars

\* C17 happens: a closed GitHub pull request was answered 200 while the
\* repository is watched and jobs are queued
C17_Witness ==
    /\ event.op = "webhook"
    /\ event.arg.platform = "GitHub"
    /\ PrActionIgnored(event.arg)
    /\ Watched(event.arg)
    /\ event.ret.status = 200
    /\ queue # << >>

\* the handlers of push events and of pull-request, merge-request and
\* check-suite events
PushOrigins == { "handle_github_push", "handle_gitlab_push", "handle_bitbucket_push" }
PrOrigins ==
    { "handle_github_pull_request", "handle_github_check_suite",
      "handle_gitlab_merge_request", "handle_bitbucket_pull_request" }

\* the priority the specification gives to the jobs of an origin
OriginPriority(o) ==
    IF o \in PushOrigins THEN Normal
    ELSE IF o \in PrOrigins THEN High
    ELSE Critical

\* the jobs passed to the scheduler or the store that are still in sight
JobsInSight ==
    Range(queue) \cup store_jobs
        \cup { cur[t] : t \in { u \in Tasks : pc[u] = "tsn_lock_running" } }

\* C15: a job's priority is fixed by its origin: Normal for a push, High for a
\* pull request, merge request or check suite (whose jobs carry no file paths),
\* Critical for trigger_check; and try_start_next never takes a webhook job
\* out of the queue while a manually triggered job is waiting in it
C15_PriorityByOrigin ==
    /\ \A j \in JobsInSight :
          /\ origin[j.id] # "none" => j.priority = OriginPriority(origin[j.id])
          /\ origin[j.id] \in PrOrigins => j.file_paths = << >>
    /\ \A t \in Tasks :
          pc[t] = "tsn_lock_running"
              /\ origin[cur[t].id] \in PushOrigins \cup PrOrigins
             => \A j \in Range(queue) : origin[j.id] # "trigger_check"

\* C15 happens: a manually triggered job has been taken out of the queue while
\* a pull-request job that was accepted before it stays queued
C15_Witness ==
    \E t \in Tasks :
        /\ pc[t] = "tsn_lock_running"
        /\ origin[cur[t].id] = "trigger_check"
        /\ \E j \in Range(queue) :
              /\ origin[j.id] \in PrOrigins
              /\ AcceptIndex(j.id) < AcceptIndex(cur[t].id)

\* a well-formed GitHub check_suite event that passed authentication
SuiteEvent(req) == AuthOk(req) /\ EventClass(req) = "suite" /\ WellFormed(req)

\* C37: a GitHub check_suite event with action requested or rerequested for
\* a registered repository whose check_on_pr flag is off is answered 200
\* (unless the lookup itself failed) and enqueues no job; a check_suite event
\* with another action never enqueues
C37_CheckSuiteHonoursFlag ==
    event.op = "webhook" /\ SuiteEvent(event.arg) =>
        IF event.arg.body.event.action \in { "requested", "rerequested" }
        THEN (\E r \in NamedRepo(event.arg) : ~r.check_on_pr)
                => /\ ~event.ret.store_failed => event.ret.status = 200
                   /\ event.ret.enqueued = << >>
        ELSE event.ret.enqueued = << >>

\* the words that make a verifier error and a storage error transient
VerifierWords ==
    { << "t", "i", "m", "e", "o", "u", "t" >>,
      << "u", "n", "a", "v", "a", "i", "l", "a", "b", "l", "e" >>,
      << "r", "a", "t", "e", " ", "l", "i", "m", "i", "t" >>,
      << "t", "e", "m", "p", "o", "r", "a", "r", "y" >>,
      << "5", "0", "3" >>,
      << "5", "0", "4" >> }
StorageWords ==
    { << "c", "o", "n", "n", "e", "c", "t", "i", "o", "n" >>,
      << "t", "i", "m", "e", "o", "u", "t" >>,
      << "d", "e", "a", "d", "l", "o", "c", "k" >> }

\* the lower-cased message of an error has one of the words in it
Mentions(error, words) ==
    \E w \in words : contains(to_lowercase(error.message), w)

\* C38: is_transient_error answers for every error: a network/HTTP error is
\* transient; a verifier error exactly when its lower-cased message contains
\* timeout, unavailable, rate limit, temporary, 503 or 504; a storage error
\* exactly when it contains connection, timeout or deadlock; configuration,
\* validation, internal and every other error is terminal
C38_TransientClassifier ==
    event.op = "is_transient_error" =>
        LET error == event.arg
        IN  /\ event.ret \in BOOLEAN
            /\ error.variant = "Http" => event.ret
            /\ error.variant = "Echidna" =>
                  (event.ret <=> Mentions(error, VerifierWords))
            /\ error.variant = "Sqlx" =>
                  (event.ret <=> Mentions(error, StorageWords))
            /\ error.variant \notin { "Http", "Echidna", "Sqlx" } => ~event.ret

\* C38 happens: a verifier error whose message names the rate limit in
\* capitals has been classified as transient
C38_Witness ==
    /\ event.op = "is_transient_error"
    /\ event.arg = Error("Echidna", << "R", "a", "t", "e", " ", "L", "i", "m", "i", "t", " ", "e", "x", "c", "e", "e", "d", "e", "d" >>)
    /\ event.ret

\* C39: every ExecutionResult execute_proof returns has oom_killed exactly
\* when the child exited with code 137 before the timeout; success excludes
\* timed_out and oom_killed; timed_out and oom_killed are never both true;
\* a timed-out result has no exit code
C39_ResultFlagsConsistent ==
    [][event'.op = "execute_proof" /\ event'.ret.ok =>
         LET r == event'.ret
         IN  /\ r.oom_killed <=> (exec.child = "exited" /\ exec.code = Some(137))
             /\ r.success => ~r.timed_out /\ ~r.oom_killed
             /\ ~(r.timed_out /\ r.oom_killed)
             /\ r.timed_out => r.exit_code = None]_vars

\* C39 happens: a run that exited with code 137 was returned as killed for
\* memory
C39_Witness ==
    /\ event.op = "execute_proof"
    /\ event.ret.ok
    /\ event.ret.oom_killed
    /\ event.ret.exit_code = Some(137)
    /\ ~event.ret.success

\* C40: clone_repo for a commit other than HEAD on GitLab and Bitbucket
\* returns a directory checked out at that commit or an error, never a
\* directory left at the tip of the default branch
C40_CloneChecksOutCommit ==
    event.op = "clone_repo" /\ event.arg.commit # "HEAD" /\ event.ret.ok
        => event.ret.head = event.arg.commit

====
